---- MODULE Spec2Model ----
(***************************************************************************)
(* Verification model of kyupark/ask: the Grok transaction-id generator   *)
(* (internal/provider/grok/transaction.go) and the ChatGPT sentinel       *)
(* proof-of-work solver (internal/provider/chatgpt/sentinel.go).          *)
(*                                                                         *)
(* Strings and byte slices are sequences of byte values 0..255 (ASCII     *)
(* codes for text).  Times are whole minutes.                              *)
(***************************************************************************)
EXTENDS Integers, Sequences, FiniteSets, TLC

(***************************************************************************)
(* Bytes, strings and the library encodings the code calls                *)
(***************************************************************************)

None == "none"

\* the zero value of sync.Mutex: no owner
Unlocked == 0

Max(a, b) == IF a >= b THEN a ELSE b

\* apply F to the value of x (of x and y), evaluated once
Once(F(_), x) == CHOOSE r \in {F(v) : v \in {x}} : TRUE

Once2(F(_, _), x, y) == CHOOSE r \in {F(v, w) : v \in {x}, w \in {y}} : TRUE

RECURSIVE XorBits(_, _, _)
XorBits(a, b, n) ==
    IF n = 0 THEN 0
    ELSE (((a % 2) + (b % 2)) % 2) + 2 * XorBits(a \div 2, b \div 2, n - 1)

\* b ^ rnd on two bytes
Xor(a, b) == XorBits(a, b, 8)

\* Go string comparison a <= b: bytewise, a proper prefix is smaller
StrLeq(s1, s2) ==
    Once2(LAMBDA a, b :
            \/ \A i \in 1..Len(a) : i <= Len(b) /\ a[i] = b[i]
            \/ \E k \in 1..Len(a) :
                  /\ k <= Len(b)
                  /\ a[k] < b[k]
                  /\ \A j \in 1..(k - 1) : a[j] = b[j],
          s1, s2)

\* strconv / %d rendering of an integer
RECURSIVE Digits(_)
Digits(n) ==
    IF n < 10 THEN <<48 + n>> ELSE Append(Digits(n \div 10), 48 + (n % 10))

Decimal(n) == IF n < 0 THEN <<45>> \o Digits(0 - n) ELSE Digits(n)

\* hex.EncodeToString: two lowercase digits per byte
HexDigit(v) == IF v < 10 THEN 48 + v ELSE 87 + v

HexEncodeToString(src) ==
    Once(LAMBDA bs :
            [j \in 1..(2 * Len(bs)) |->
                IF j % 2 = 1 THEN HexDigit(bs[(j + 1) \div 2] \div 16)
                ELSE HexDigit(bs[(j + 1) \div 2] % 16)],
         src)

\* the standard base64 alphabet A-Z a-z 0-9 + /
B64Char(v) ==
    IF v < 26 THEN 65 + v
    ELSE IF v < 52 THEN 97 + (v - 26)
    ELSE IF v < 62 THEN 48 + (v - 52)
    ELSE IF v = 62 THEN 43 ELSE 47

B64Pad == 61

\* base64.StdEncoding.EncodeToString
Base64Encode(src) ==
    Once(LAMBDA bs :
            LET n == Len(bs)
                groups == (n + 2) \div 3
                at(i) == IF i <= n THEN bs[i] ELSE 0
            IN  [j \in 1..(4 * groups) |->
                    LET gi == (j - 1) \div 4
                        k == (j - 1) % 4
                        v == at(3 * gi + 1) * 65536 + at(3 * gi + 2) * 256
                             + at(3 * gi + 3)
                        sext == CASE k = 0 -> v \div 262144
                                  [] k = 1 -> (v \div 4096) % 64
                                  [] k = 2 -> (v \div 64) % 64
                                  [] OTHER -> v % 64
                    IN  IF k = 2 /\ 3 * gi + 2 > n THEN B64Pad
                        ELSE IF k = 3 /\ 3 * gi + 3 > n THEN B64Pad
                        ELSE B64Char(sext)],
         src)

B64Alphabet == {B64Char(v) : v \in 0..63}

B64Val(c) == CHOOSE v \in 0..63 : B64Char(v) = c

\* base64.StdEncoding.DecodeString: [ok, bytes]; line breaks are skipped,
\* padding is mandatory and only allowed in the last one or two places of
\* the last group
Base64Decode(str) ==
  Once(LAMBDA s :
    LET n == Len(s)
        pads == IF n >= 2 /\ s[n] = B64Pad /\ s[n - 1] = B64Pad THEN 2
                ELSE IF n >= 1 /\ s[n] = B64Pad THEN 1 ELSE 0
        wellFormed == /\ n % 4 = 0
                      /\ \A i \in 1..(n - pads) : s[i] \in B64Alphabet
        val(i) == IF i <= n - pads THEN B64Val(s[i]) ELSE 0
        outLen == 3 * (n \div 4) - pads
    IN  IF ~wellFormed THEN [ok |-> FALSE, bytes |-> <<>>]
        ELSE [ok |-> TRUE,
              bytes |-> [i \in 1..outLen |->
                  LET gi == (i - 1) \div 3
                      k == (i - 1) % 3
                      v == val(4 * gi + 1) * 262144 + val(4 * gi + 2) * 4096
                           + val(4 * gi + 3) * 64 + val(4 * gi + 4)
                  IN  CASE k = 0 -> v \div 65536
                        [] k = 1 -> (v \div 256) % 256
                        [] OTHER -> v % 256]],
    SelectSeq(str, LAMBDA ch : ch \notin {10, 13}))

\* strings.TrimRight(s, "=")
TrimRightPad(str) ==
    Once(LAMBDA s :
            IF \A i \in 1..Len(s) : s[i] = B64Pad THEN <<>>
            ELSE SubSeq(s, 1, CHOOSE m \in 1..Len(s) :
                                 /\ s[m] # B64Pad
                                 /\ \A j \in (m + 1)..Len(s) : s[j] = B64Pad),
         str)

\* padded += strings.Repeat("=", 4-rem)
PadToFour(s) ==
    LET rem == Len(s) % 4
    IN  IF rem = 0 THEN s ELSE s \o [i \in 1..(4 - rem) |-> B64Pad]

(***************************************************************************)
(* Digests.  SHA-256 and SHA3-512 are library code; each is represented   *)
(* by a fixed deterministic function of the whole input with the real     *)
(* digest's length, so equal inputs hash equally and the prefix tests     *)
(* of the callers see varied bytes.                                       *)
(***************************************************************************)

RECURSIVE Mix(_, _, _)
Mix(data, lo, hi) ==
    IF lo > hi THEN 7
    ELSE IF lo = hi THEN (data[lo] * 251 + lo) % 65521
    ELSE LET mid == (lo + hi) \div 2
         IN  (Mix(data, lo, mid) * 31 + Mix(data, mid + 1, hi) * 17 + hi) % 65521

Sha256Len == 32

Sha3_512Len == 64

\* digest bytes spread from the mixed value h
Sha256Bytes(mixed) ==
    Once(LAMBDA h :
            [j \in 1..Sha256Len |-> (h * (2 * j + 1) + (h \div 251) + 7 * j) % 256],
         mixed)

Sha3_512Bytes(mixed) ==
    Once(LAMBDA h :
            [j \in 1..Sha3_512Len |->
                ((h \div 3) * (2 * j - 1) + (h \div 256) + 11 * j) % 256],
         mixed)

Sha256Sum(data) == Once(LAMBDA d : Sha256Bytes(Mix(d, 1, Len(d))), data)

Sha3_512Sum(data) ==
    Once(LAMBDA d : Sha3_512Bytes((Mix(d, 1, Len(d)) * 3 + 40503) % 65521), data)

(***************************************************************************)
(* transactionGenerator (grok/transaction.go)                             *)
(***************************************************************************)

\* bounds of the generator model
NumCallers == 2

MaxCalls == 3

MaxClock == 90

TickMinutes == 30

\* transactionCacheTTL = 1 * time.Hour, in minutes
transactionCacheTTL == 60

\* "obfiowerehiring"
defaultTransactionKeyword ==
    <<111, 98, 102, 105, 111, 119, 101, 114, 101, 104, 105, 114, 105, 110, 103>>

\* the offset subtracted from the Unix time, in seconds
EpochOffset == 1682924400

\* ADDITIONAL_RANDOM_NUMBER
AdditionalRandomNumber == 3

\* Unix time (seconds) at clock = 0
StartUnix == 1682924400 + 86400

Callers == 1..NumCallers

\* "POST"
MethodPost == <<80, 79, 83, 84>>

\* "/a"
PathA == <<47, 97>>

\* the four little-endian bytes byte(now & 0xff) .. byte((now >> 24) & 0xff)
TimeBytes(now) ==
    <<now % 256, (now \div 256) % 256, (now \div 65536) % 256, (now \div 16777216) % 256>>

\* fmt.Sprintf("%s!%s!%d%s%s", method, path, now, keyword, animationKey)
TransactionData(method, path, now, animationKey) ==
    method \o <<33>> \o path \o <<33>> \o Decimal(now)
        \o defaultTransactionKeyword \o animationKey

BytesArrNoTag(keyBytes, animationKey, method, path, now) ==
    keyBytes \o TimeBytes(now)
        \o SubSeq(Sha256Sum(TransactionData(method, path, now, animationKey)), 1, 16)

\* bytesArr = keyBytes ++ timeBytes ++ hash[:16] ++ [3]
BytesArr(keyBytes, animationKey, method, path, now) ==
    keyBytes \o TimeBytes(now)
        \o SubSeq(Sha256Sum(TransactionData(method, path, now, animationKey)), 1, 16)
        \o <<AdditionalRandomNumber>>

ObfuscatedOutSkipLast(bytesArr, rnd) ==
    Once(LAMBDA arr :
            [i \in 1..(1 + Len(arr)) |->
                IF i = 1 THEN rnd
                ELSE IF i = 1 + Len(arr) THEN arr[i - 1]
                ELSE Xor(arr[i - 1], rnd)],
         bytesArr)

\* out[0] = rnd; out[i+1] = b ^ rnd
ObfuscatedOut(bytesArr, rnd) ==
    Once(LAMBDA arr :
            [i \in 1..(1 + Len(arr)) |-> IF i = 1 THEN rnd ELSE Xor(arr[i - 1], rnd)],
         bytesArr)

\* the value generateID returns once the cache is ready
generateIDToken(keyBytes, animationKey, method, path, now, rnd) ==
    TrimRightPad(Base64Encode(
        ObfuscatedOut(BytesArr(keyBytes, animationKey, method, path, now), rnd)))

\* getKeyBytes: decode the padded key, fall back to the raw bytes
getKeyBytesPadded(key) ==
    LET decoded == Base64Decode(PadToFour(key))
    IN  IF decoded.ok THEN decoded.bytes ELSE PadToFour(key)

getKeyBytes(key) ==
    LET decoded == Base64Decode(PadToFour(key))
    IN  IF decoded.ok THEN decoded.bytes ELSE key

\* getFramesD: per loading-animation svg block (a list of its path d
\* strings) the second path when there are several, else the only one
RECURSIVE getFramesD(_)
getFramesD(svgs) ==
    IF svgs = <<>> THEN <<>>
    ELSE LET ds == Head(svgs)
             rest == getFramesD(Tail(svgs))
         IN  IF Len(ds) > 1 THEN <<ds[2]>> \o rest
             ELSE IF Len(ds) > 0 THEN <<ds[1]>> \o rest
             ELSE rest

\* strings.Split(str[from-1:], sep) for a one-byte separator: the item
\* numbered j holds the bytes that have j - 1 separators before them
SplitFrom(str0, sep, from) ==
    Once(LAMBDA str :
        LET Seps(i) == Cardinality({k \in from..i : str[k] = sep})
            ItemAt(j) ==
                LET idx == {i \in from..Len(str) : str[i] # sep /\ Seps(i) = j - 1}
                IN  IF idx = {} THEN <<>>
                    ELSE LET lo == CHOOSE i \in idx : \A i2 \in idx : i <= i2
                         IN  [k \in 1..Cardinality(idx) |-> str[lo + k - 1]]
        IN  [j \in 1..(Seps(Len(str)) + 1) |-> ItemAt(j)],
        str0)

IsDigit(ch) == ch >= 48 /\ ch <= 57

\* strconv.Atoi of a run of digits
RECURSIVE Atoi(_)
Atoi(digits) ==
    IF digits = <<>> THEN 0
    ELSE Atoi(SubSeq(digits, 1, Len(digits) - 1)) * 10 + (digits[Len(digits)] - 48)

\* the strings.Map / TrimSpace / Fields / Atoi chain of get2dArray: the
\* maximal digit runs of an item, as integers, in order
DigitRuns(item0) ==
    Once(LAMBDA item :
        LET starts == {i \in 1..Len(item) :
                          IsDigit(item[i]) /\ (i = 1 \/ ~IsDigit(item[i - 1]))}
            StartAt(k) == CHOOSE st \in starts : Cardinality({t \in starts : t < st}) = k - 1
            EndOf(st) == CHOOSE e \in st..Len(item) :
                            /\ \A i \in st..e : IsDigit(item[i])
                            /\ (e = Len(item) \/ ~IsDigit(item[e + 1]))
        IN  [k \in 1..Cardinality(starts) |->
                Atoi(SubSeq(item, StartAt(k), EndOf(StartAt(k))))],
        item0)

\* the frame get2dArray reads, 0-based
FrameIndexModLen(keyBytes, n) == keyBytes[6] % n

FrameIndex(keyBytes, n) == (keyBytes[6] % 4) % n

\* get2dArray's test for a path too short to hold curve data
ShortPathNine(dAttr) == Len(dAttr) < 9

ShortPath(dAttr) == Len(dAttr) <= 9

\* get2dArray: the chosen path d string (empty without frames) and the rows
\* of integers parsed from it
get2dArray(frames, keyBytes) ==
    IF Len(frames) = 0 THEN [dAttr |-> <<>>, arr |-> << <<>> >>]
    ELSE LET dAttr == frames[FrameIndex(keyBytes, Len(frames)) + 1]
         IN  IF ShortPath(dAttr) THEN [dAttr |-> dAttr, arr |-> <<>>]
             ELSE LET items == SplitFrom(dAttr, 67, 10)
                  IN  [dAttr |-> dAttr,
                       arr |-> [i \in 1..Len(items) |-> DigitRuns(items[i])]]

\* Go's int on the 64-bit builds: a value is a sequence of 16-bit limbs,
\* least significant first, in two's complement; int is four limbs wide
IntLimbs == 4

\* the small non-negative number n in k limbs
Word(n, k) == [i \in 1..k |-> IF i = 1 THEN n ELSE 0]

\* the carry into limb i of w * f
RECURSIVE MulCarry(_, _, _)
MulCarry(w, f, i) ==
    IF i = 1 THEN 0 ELSE (w[i - 1] * f + MulCarry(w, f, i - 1)) \div 65536

\* w *= f for a factor below 16: the product wraps at the width of w
MulSmall(w0, f) ==
    Once(LAMBDA w : [i \in 1..Len(w) |-> (w[i] * f + MulCarry(w, f, i)) % 65536], w0)

\* the sign bit
IsNeg(w) == w[Len(w)] >= 32768

\* -w
Negate(w0) ==
    Once(LAMBDA w :
            [i \in 1..Len(w) |->
                (65535 - w[i] + (IF \A j \in 1..(i - 1) : w[j] = 0 THEN 1 ELSE 0))
                    % 65536],
         w0)

\* the unsigned w modulo d, from limb i up
RECURSIVE RemFrom(_, _, _)
RemFrom(w, d, i) ==
    IF i > Len(w) THEN 0 ELSE (RemFrom(w, d, i + 1) * 65536 + w[i]) % d

\* what limb i has to give up in w - r
RECURSIVE Borrow(_, _, _)
Borrow(w, r, i) ==
    IF i = 1 THEN r
    ELSE IF w[i - 1] - Borrow(w, r, i - 1) < 0 THEN 1 ELSE 0

\* w - r for 0 <= r <= w
SubSmall(w0, r) ==
    Once(LAMBDA w : [i \in 1..Len(w) |-> (w[i] - Borrow(w, r, i) + 65536) % 65536], w0)

\* (x / 10) * 10 with Go's division, which truncates toward zero
TruncToTen(x0) ==
    Once(LAMBDA x :
            IF IsNeg(x)
            THEN LET mag == Negate(x) IN Negate(SubSmall(mag, RemFrom(mag, 10, 1)))
            ELSE SubSmall(x, RemFrom(x, 10, 1)),
         x0)

\* getAnimationKey's loop: frameTime starts at 1 and is multiplied by
\* keyBytes[idx] % 16 for each key index inside keyBytes, in order
RECURSIVE FrameTimeProduct(_, _)
FrameTimeProduct(keyIndices, keyBytes) ==
    IF keyIndices = <<>> THEN Word(1, IntLimbs)
    ELSE LET n == Len(keyIndices)
             idx == keyIndices[n]
             rest == FrameTimeProduct(SubSeq(keyIndices, 1, n - 1), keyBytes)
         IN  IF idx < Len(keyBytes) THEN MulSmall(rest, keyBytes[idx + 1] % 16) ELSE rest

\* frameTime = (frameTime / 10) * 10
FrameTime(keyIndices, keyBytes) == TruncToTen(FrameTimeProduct(keyIndices, keyBytes))

\* animate: frames[7:] panics on a row of fewer than seven numbers; the
\* floating-point curve arithmetic is not reproduced, its result (never
\* empty: it ends in "00") is represented by a string fixed by the row and
\* the frame time
animate(row, frameTime) ==
    IF Len(row) < 7 THEN [panic |-> TRUE, str |-> <<>>]
    ELSE [panic |-> FALSE,
          str |-> HexEncodeToString(<<Mix(row, 1, Len(row)) % 256,
                                      frameTime[1] % 256>>) \o <<48, 48>>]

\* getAnimationKey: the key, whether animate was called, whether it
\* panicked, the path read and the frame time
getAnimationKey(svgs, rowIndex, keyIndices, keyBytes) ==
    IF Len(keyBytes) <= rowIndex \/ Len(keyBytes) <= 5
    THEN [key |-> <<>>, animated |-> FALSE, panic |-> FALSE, dAttr |-> <<>>,
          frameTime |-> <<>>]
    ELSE LET row == keyBytes[rowIndex + 1] % 16
             frameTime == FrameTime(keyIndices, keyBytes)
             got == get2dArray(getFramesD(svgs), keyBytes)
         IN  IF row >= Len(got.arr)
             THEN [key |-> <<>>, animated |-> FALSE, panic |-> FALSE,
                   dAttr |-> got.dAttr, frameTime |-> frameTime]
             ELSE LET a == animate(got.arr[row + 1], frameTime)
                  IN  [key |-> a.str, animated |-> TRUE, panic |-> a.panic,
                       dAttr |-> got.dAttr, frameTime |-> frameTime]

\* path d strings of loading-animation svg blocks
\* "M 0 z"
PathOutline ==
    <<77, 32, 48, 32, 122>>

\* "M 10,30 C 1 2 3 4 5 6 7 C 8 9 10 11 12 13 14"
Path0 ==
    <<77, 32, 49, 48, 44, 51, 48, 32, 67, 32, 49, 32, 50, 32, 51, 32, 52,
     32, 53, 32, 54, 32, 55, 32, 67, 32, 56, 32, 57, 32, 49, 48, 32, 49,
     49, 32, 49, 50, 32, 49, 51, 32, 49, 52>>

\* "M 10,30 C 2 3 4 5 6 7 8 C 9 8 7 6 5 4 3"
Path1 ==
    <<77, 32, 49, 48, 44, 51, 48, 32, 67, 32, 50, 32, 51, 32, 52, 32, 53,
     32, 54, 32, 55, 32, 56, 32, 67, 32, 57, 32, 56, 32, 55, 32, 54, 32,
     53, 32, 52, 32, 51>>

\* "M 10,30 C 3 4 5 6 7 8 9 C 1 3 5 7 9 11 13"
Path2 ==
    <<77, 32, 49, 48, 44, 51, 48, 32, 67, 32, 51, 32, 52, 32, 53, 32, 54,
     32, 55, 32, 56, 32, 57, 32, 67, 32, 49, 32, 51, 32, 53, 32, 55, 32,
     57, 32, 49, 49, 32, 49, 51>>

\* "M 10,30 C 4,5 6,7 8,9 h 1 2 C 2 4 6 8 10 12 14"
Path3 ==
    <<77, 32, 49, 48, 44, 51, 48, 32, 67, 32, 52, 44, 53, 32, 54, 44, 55,
     32, 56, 44, 57, 32, 104, 32, 49, 32, 50, 32, 67, 32, 50, 32, 52, 32,
     54, 32, 56, 32, 49, 48, 32, 49, 50, 32, 49, 52>>

\* "M 10,30 C 5 6 7 8 9 1 2 C 7 7 7 7 7 7 7"
Path4 ==
    <<77, 32, 49, 48, 44, 51, 48, 32, 67, 32, 53, 32, 54, 32, 55, 32, 56,
     32, 57, 32, 49, 32, 50, 32, 67, 32, 55, 32, 55, 32, 55, 32, 55, 32,
     55, 32, 55, 32, 55>>

\* "M 10,30 C"
PathShort9 ==
    <<77, 32, 49, 48, 44, 51, 48, 32, 67>>

\* "M 1"
PathShort3 ==
    <<77, 32, 49>>

\* "M 10,30 C7"
PathTen ==
    <<77, 32, 49, 48, 44, 51, 48, 32, 67, 55>>

\* an svg block as on the live page: an outline path, then the curve path
SvgBlock(path) == <<PathOutline, path>>

\* the four loading-animation blocks of a page
FourSvgs == <<SvgBlock(Path0), SvgBlock(Path1), SvgBlock(Path2), SvgBlock(Path3)>>

\* material a homepage fetch can return: whether the page references the
\* ondemand.s asset, the verification key ("" without the meta tag), and the
\* loading-animation blocks (none on a page without them)
\* "AAECAwQFBgc" (bytes 0..7)
GenKeys == {<<65, 65, 69, 67, 65, 119, 81, 70, 66, 103, 99>>}

PageKinds == {"full", "noref", "nokey", "nosvg"}

Page(kind, id, k) ==
    [id |-> id,
     ondemand |-> kind # "noref",
     key |-> IF kind = "nokey" THEN <<>> ELSE k,
     svgs |-> IF kind = "nosvg" THEN <<>> ELSE FourSvgs]

Homepages(kinds, id) == {Page(kind, id, k) : kind \in kinds, k \in GenKeys}

HomepageResponses(kinds, id) ==
    {[kind |-> "err"], [kind |-> "status"]}
        \cup {[kind |-> "ok", html |-> h] : h \in Homepages(kinds, id)}

\* outcomes of the ondemand.s fetch: transport error, non-200 status, or a
\* script with the listed reIndices matches
OnDemandResponses ==
    {[kind |-> "err"], [kind |-> "status"]}
        \cup {[kind |-> "ok", indices |-> ix] : ix \in {<<2>>, <<1, 3, 4>>}}

RandomBytes == {165}

NoHTML == [id |-> 0, ondemand |-> FALSE, key |-> <<>>, svgs |-> <<>>]

NoResult == [err |-> FALSE, token |-> <<>>, src |-> <<>>, fetchNo |-> 0]

VARIABLES
    g,              \* the transactionGenerator's cached fields
    mu,             \* g.mu: the caller holding it, or Unlocked
    pc,             \* each caller's position in generateID
    clock,          \* minutes since start
    result,         \* what each caller's generateID returned
    calls,          \* generateID calls made so far
    fetches,        \* homepage fetches started so far
    origin,         \* per cached field, the fetch that last wrote it
    lastOkFetch,    \* the fetch of the last successful initialization
    lastOkAt,       \* and the time it recorded
    lastInitFailed, \* the latest ensureInitialized returned an error
    expiredCalls,   \* calls that found the last success expired
    callFetches,    \* homepage fetches started by each caller's call
    checkKind,      \* how each call found the cache, judged by lastOkAt
    arrival,        \* how the cache stood when each call arrived
    seen,           \* what getIndices found during each caller's call
    cancelled,      \* the context of generateID's caller is done
    served          \* the kinds of page x.com serves in this run

genVars ==
    <<g, mu, pc, clock, result, calls, fetches, origin, lastOkFetch, lastOkAt,
      lastInitFailed, expiredCalls, callFetches, checkKind, arrival, seen,
      cancelled, served>>

NoSeen == [kind |-> "none", indices |-> <<>>]

OriginFields == {"homePageHTML", "cachedAt", "defaultRowIndex", "defaultKeyIndices",
                 "keyBytes", "animationKey"}

GenStart ==
    /\ g = [homePageHTML |-> NoHTML, defaultRowIndex |-> 0, defaultKeyIndices |-> <<>>,
            key |-> <<>>, keyBytes |-> <<>>, animationKey |-> <<>>,
            initialized |-> FALSE, cachedAt |-> 0]
    /\ mu = Unlocked
    /\ pc = [c \in Callers |-> "idle"]
    /\ clock = 0
    /\ result = [c \in Callers |-> NoResult]
    /\ calls = 0
    /\ fetches = 0
    /\ origin = [f \in OriginFields |-> 0]
    /\ lastOkFetch = 0
    /\ lastOkAt = 0
    /\ lastInitFailed = FALSE
    /\ expiredCalls = 0
    /\ callFetches = [c \in Callers |-> 0]
    /\ checkKind = [c \in Callers |-> None]
    /\ arrival = [c \in Callers |-> None]
    /\ seen = [c \in Callers |-> NoSeen]
    /\ cancelled = [c \in Callers |-> FALSE]

\* x.com serves complete pages and pages without the ondemand.s reference
GenInit == GenStart /\ served = {"full", "noref"}

VARIABLES
    powPc,      \* position in solveProofOfWork
    config,     \* the config slice (mutated in place)
    config0,    \* the config slice as it was at call entry
    seed,       \* the seed argument
    diff,       \* the diff argument
    iter,       \* the loop variable i
    elapsed,    \* time.Since(startTime).Milliseconds() as last read
    powResult,  \* the returned (token, solved)
    tried       \* per executed iteration, its b64 and whether it met diff

powVars == <<powPc, config, config0, seed, diff, iter, elapsed, powResult, tried>>

VARIABLES
    tokPc,      \* position of the token computation
    tokIn,      \* keyBytes, animationKey, method, path, now, rnd
    tokOut      \* the string generateID returned

tokVars == <<tokPc, tokIn, tokOut>>

VARIABLES
    animPc,     \* position of the animation-key computation
    animIn,     \* svg blocks, row index, key indices, key bytes
    animOut     \* what getAnimationKey returned

animVars == <<animPc, animIn, animOut>>

VARIABLES
    trPc,       \* position in chromeTransport.RoundTrip
    trReq,      \* the request of the current (or last) RoundTrip
    conns,      \* every connection dialed so far
    trLog       \* per RoundTrip so far, what it did and returned

trVars == <<trPc, trReq, conns, trLog>>

VARIABLES
    askPc,      \* position in Provider.Ask
    sentinel,   \* what acquireSentinel returned
    askReq      \* the conversation request as sent

askVars == <<askPc, sentinel, askReq>>

VARIABLES
    stPc,       \* each provider process's position in its OnConversation
    stFile,     \* state.json: per provider the stored conversation id
    stLocal,    \* each process's *State between LoadState and SaveState
    stConv,     \* the conversation id each running callback was given
    stLatest,   \* per provider, the id of its latest completed callback
    stCalls     \* callbacks started so far, per provider

stVars == <<stPc, stFile, stLocal, stConv, stLatest, stCalls>>

VARIABLES
    fnPc,       \* position of the function studied on its own
    fnIn,       \* its arguments
    fnOut       \* what it returned

fnVars == <<fnPc, fnIn, fnOut>>

VARIABLES
    ssePc,      \* position in sse.Read
    sseLines,   \* the lines the reader holds
    ssePos,     \* lines the scanner has delivered
    sseCalls,   \* the handler calls made: payload and returned error
    sseRet      \* what Read returned

sseVars == <<ssePc, sseLines, ssePos, sseCalls, sseRet>>

VARIABLES
    ckPc,       \* position in cookies.Extract
    ckIn,       \* requested names and what each browser's store yields
    ckPos,      \* cookies of the current store already visited
    ckResult,   \* result.Cookies and result.Browser
    ckLog       \* every store into result.Cookies, and the stores opened

ckVars == <<ckPc, ckIn, ckPos, ckResult, ckLog>>

VARIABLES
    atPc,       \* position in Provider.getAccessToken
    atProv,     \* p.accessToken and p.tokenExpiry
    atClock,    \* minutes since start
    atTried,    \* hosts requested by the current call, in order
    atRet,      \* what the latest call returned
    atIssued    \* per token, the time its session response arrived

atVars == <<atPc, atProv, atClock, atTried, atRet, atIssued>>

VARIABLES
    rsPc,       \* position in Provider.readStream
    rsLines,    \* the lines of the response body
    rsPos,      \* lines the scanner has delivered
    rsFull,     \* fullText
    rsCalls     \* the callbacks invoked, in order

rsVars == <<rsPc, rsLines, rsPos, rsFull, rsCalls>>

VARIABLES
    cmdPc,      \* position in the ask command
    cmdIn,      \* provider, temporary and the resume and conversation flags
    cmdOpts,    \* opts.ConversationID and whether opts.OnConversation is set
    cmdFile,    \* state.json
    cmdLog      \* LoadState and SaveState calls made

cmdVars == <<cmdPc, cmdIn, cmdOpts, cmdFile, cmdLog>>

\* the variables of the parts added last
restVars == <<fnVars, sseVars, ckVars, atVars, rsVars, cmdVars>>

vars == <<genVars, powVars, tokVars, animVars, trVars, askVars, stVars,
         restVars>>

GenFrame == UNCHANGED <<served, powVars, tokVars, animVars, trVars, askVars, stVars,
        restVars>>

FnOff ==
    /\ fnPc = "off"
    /\ fnIn = <<>>
    /\ fnOut = <<>>

SseOff ==
    /\ ssePc = "off"
    /\ sseLines = <<>>
    /\ ssePos = <<>>
    /\ sseCalls = <<>>
    /\ sseRet = <<>>

CkOff ==
    /\ ckPc = "off"
    /\ ckIn = <<>>
    /\ ckPos = <<>>
    /\ ckResult = <<>>
    /\ ckLog = <<>>

AtOff ==
    /\ atPc = "off"
    /\ atProv = <<>>
    /\ atClock = <<>>
    /\ atTried = <<>>
    /\ atRet = <<>>
    /\ atIssued = <<>>

RsOff ==
    /\ rsPc = "off"
    /\ rsLines = <<>>
    /\ rsPos = <<>>
    /\ rsFull = <<>>
    /\ rsCalls = <<>>

CmdOff ==
    /\ cmdPc = "off"
    /\ cmdIn = <<>>
    /\ cmdOpts = <<>>
    /\ cmdFile = <<>>
    /\ cmdLog = <<>>

RestOff == FnOff /\ SseOff /\ CkOff /\ AtOff /\ RsOff /\ CmdOff

AnimOff ==
    /\ animPc = "off"
    /\ animIn = <<>>
    /\ animOut = <<>>

TrOff ==
    /\ trPc = "off"
    /\ trReq = <<>>
    /\ conns = <<>>
    /\ trLog = <<>>

AskOff ==
    /\ askPc = "off"
    /\ sentinel = <<>>
    /\ askReq = <<>>

StOff ==
    /\ stPc = <<>>
    /\ stFile = <<>>
    /\ stLocal = <<>>
    /\ stConv = <<>>
    /\ stLatest = <<>>
    /\ stCalls = <<>>

\* getKey: the content of the twitter-site-verification meta tag, "" when
\* neither pattern matches
getKey(html) == html.key

\* getIndices: reOnDemand matches the page with a non-empty hash
HasOnDemand(html) == html.ondemand

\* getIndices: the test on the number of reIndices matches
EnoughIndicesOne(indices) == Len(indices) >= 1

EnoughIndices(indices) == Len(indices) >= 2

\* the test of ensureInitialized's first line
CacheFreshInclusive(gg, now) ==
    gg.initialized /\ now - gg.cachedAt <= transactionCacheTTL

CacheFresh(gg, now) ==
    gg.initialized /\ now - gg.cachedAt < transactionCacheTTL

\* how a call finds the cache, judged by the last successful initialization
KindAt(now) ==
    IF lastOkFetch = 0 THEN "cold"
    ELSE IF now - lastOkAt < transactionCacheTTL THEN "fresh"
    ELSE IF expiredCalls = 0 THEN "expired_first"
    ELSE "expired_later"

\* a caller enters generateID and blocks on g.mu.Lock()
Call(c) ==
    /\ pc[c] = "idle"
    /\ calls < MaxCalls
    /\ calls' = calls + 1
    /\ pc' = [pc EXCEPT ![c] = "lock"]
    /\ arrival' = [arrival EXCEPT ![c] = KindAt(clock)]
    /\ UNCHANGED <<g, mu, clock, result, fetches, origin, lastOkFetch, lastOkAt,
                   lastInitFailed, expiredCalls, callFetches, checkKind>>
    /\ UNCHANGED <<seen, cancelled>>
    /\ GenFrame

LockNoMutex(c) ==
    /\ pc[c] = "lock"
    /\ mu' = c
    /\ pc' = [pc EXCEPT ![c] = "ensure"]
    /\ UNCHANGED <<g, clock, result, calls, fetches, origin, lastOkFetch, lastOkAt,
                   lastInitFailed, expiredCalls, callFetches, checkKind, arrival>>
    /\ UNCHANGED <<seen, cancelled>>
    /\ GenFrame

\* g.mu.Lock() succeeds
Lock(c) ==
    /\ pc[c] = "lock"
    /\ mu = Unlocked
    /\ mu' = c
    /\ pc' = [pc EXCEPT ![c] = "ensure"]
    /\ UNCHANGED <<g, clock, result, calls, fetches, origin, lastOkFetch, lastOkAt,
                   lastInitFailed, expiredCalls, callFetches, checkKind, arrival>>
    /\ UNCHANGED <<seen, cancelled>>
    /\ GenFrame

\* ensureInitialized's TTL test; a stale or cold cache starts the homepage fetch
EnsureCheck(c) ==
    /\ pc[c] = "ensure"
    /\ checkKind' = [checkKind EXCEPT ![c] = KindAt(clock)]
    /\ expiredCalls' = IF KindAt(clock) \in {"expired_first", "expired_later"}
                       THEN expiredCalls + 1 ELSE expiredCalls
    /\ IF CacheFresh(g, clock)
       THEN /\ pc' = [pc EXCEPT ![c] = "compute"]
            /\ UNCHANGED <<fetches, callFetches>>
       ELSE /\ pc' = [pc EXCEPT ![c] = "fetchHomepage"]
            /\ fetches' = fetches + 1
            /\ callFetches' = [callFetches EXCEPT ![c] = @ + 1]
    /\ UNCHANGED <<g, mu, clock, result, calls, origin, lastOkFetch, lastOkAt,
                   lastInitFailed, arrival>>
    /\ UNCHANGED <<seen, cancelled>>
    /\ GenFrame

\* generateID returns ("", err); the deferred Unlock runs and the call's
\* context is of no further interest
ReturnError(c) ==
    /\ result' = [result EXCEPT ![c] = [err |-> TRUE, token |-> <<>>, src |-> origin',
                                        fetchNo |-> fetches]]
    /\ pc' = [pc EXCEPT ![c] = "done"]
    /\ mu' = Unlocked
    /\ lastInitFailed' = TRUE
    /\ cancelled' = [cancelled EXCEPT ![c] = FALSE]

\* fetchHomepageHTML returns; on success the page and cachedAt are stored and
\* getIndices looks for the ondemand.s reference
FetchHomepageReturn(c) ==
    /\ pc[c] = "fetchHomepage"
    /\ \E resp \in HomepageResponses(served, fetches) :
        \/ /\ resp.kind \in {"err", "status"}
           /\ UNCHANGED <<g, origin, seen>>
           /\ ReturnError(c)
        \/ /\ resp.kind = "ok"
           /\ g' = [g EXCEPT !.homePageHTML = resp.html, !.cachedAt = clock]
           /\ origin' = [origin EXCEPT !["homePageHTML"] = fetches,
                                       !["cachedAt"] = fetches]
           /\ IF HasOnDemand(resp.html)
              THEN /\ pc' = [pc EXCEPT ![c] = "fetchOnDemand"]
                   /\ UNCHANGED <<mu, result, lastInitFailed, seen, cancelled>>
              ELSE /\ seen' = [seen EXCEPT ![c] = [kind |-> "noref", indices |-> <<>>]]
                   /\ ReturnError(c)
    /\ UNCHANGED <<clock, calls, fetches, lastOkFetch, lastOkAt, expiredCalls,
                   callFetches, checkKind, arrival>>
    /\ GenFrame

\* the ondemand.s fetch returns; with two or more indices the remaining
\* fields are derived and the generator becomes initialized
FetchOnDemandReturn(c) ==
    /\ pc[c] = "fetchOnDemand"
    /\ \E resp \in OnDemandResponses :
        \/ /\ resp.kind \in {"err", "status"}
           /\ UNCHANGED <<g, origin, lastOkFetch, lastOkAt, expiredCalls, seen>>
           /\ ReturnError(c)
        \/ /\ resp.kind = "ok"
           /\ ~EnoughIndices(resp.indices)
           /\ seen' = [seen EXCEPT ![c] = [kind |-> "script", indices |-> resp.indices]]
           /\ UNCHANGED <<g, origin, lastOkFetch, lastOkAt, expiredCalls>>
           /\ ReturnError(c)
        \/ /\ resp.kind = "ok"
           /\ EnoughIndices(resp.indices)
           /\ seen' = [seen EXCEPT ![c] = [kind |-> "script", indices |-> resp.indices]]
           /\ LET rowIndex == resp.indices[1]
                  keyIndices == Tail(resp.indices)
                  key == getKey(g.homePageHTML)
                  keyBytes == getKeyBytes(key)
                  anim == getAnimationKey(g.homePageHTML.svgs, rowIndex, keyIndices,
                                          keyBytes)
              IN  IF anim.panic
                  THEN \* animate panics: the deferred Unlock runs and the
                       \* unrecovered panic ends the process
                       /\ g' = [g EXCEPT !.defaultRowIndex = rowIndex,
                                         !.defaultKeyIndices = keyIndices,
                                         !.key = key,
                                         !.keyBytes = keyBytes]
                       /\ origin' = [origin EXCEPT
                                        !["defaultRowIndex"] = origin["homePageHTML"],
                                        !["defaultKeyIndices"] = origin["homePageHTML"],
                                        !["keyBytes"] = origin["homePageHTML"]]
                       /\ pc' = [d \in Callers |-> "panic"]
                       /\ mu' = Unlocked
                       /\ UNCHANGED <<result, cancelled, lastOkFetch, lastOkAt,
                                      lastInitFailed, expiredCalls>>
                  ELSE /\ g' = [g EXCEPT !.defaultRowIndex = rowIndex,
                                         !.defaultKeyIndices = keyIndices,
                                         !.key = key,
                                         !.keyBytes = keyBytes,
                                         !.animationKey = anim.key,
                                         !.initialized = TRUE]
                       /\ origin' = [origin EXCEPT
                                        !["defaultRowIndex"] = origin["homePageHTML"],
                                        !["defaultKeyIndices"] = origin["homePageHTML"],
                                        !["keyBytes"] = origin["homePageHTML"],
                                        !["animationKey"] = origin["homePageHTML"]]
                       /\ lastOkFetch' = fetches
                       /\ lastOkAt' = g.cachedAt
                       /\ lastInitFailed' = FALSE
                       /\ expiredCalls' = 0
                       /\ pc' = [pc EXCEPT ![c] = "compute"]
                       /\ UNCHANGED <<mu, result, cancelled>>
    /\ UNCHANGED <<clock, calls, fetches, callFetches, checkKind, arrival>>
    /\ GenFrame

\* the token is computed from the cached fields and returned; Unlock runs
Compute(c) ==
    /\ pc[c] = "compute"
    /\ \E rnd \in RandomBytes :
        result' = [result EXCEPT ![c] =
            [err |-> FALSE,
             token |-> generateIDToken(g.keyBytes, g.animationKey, MethodPost, PathA,
                                       StartUnix + clock * 60 - EpochOffset, rnd),
             src |-> origin,
             fetchNo |-> fetches]]
    /\ pc' = [pc EXCEPT ![c] = "done"]
    /\ mu' = Unlocked
    /\ UNCHANGED <<g, clock, calls, fetches, origin, lastOkFetch, lastOkAt,
                   lastInitFailed, expiredCalls, callFetches, checkKind, arrival>>
    /\ cancelled' = [cancelled EXCEPT ![c] = FALSE]
    /\ UNCHANGED seen
    /\ GenFrame

\* the caller takes the result (its record is dropped) and may call again
Return(c) ==
    /\ pc[c] = "done"
    /\ pc' = [pc EXCEPT ![c] = "idle"]
    /\ result' = [result EXCEPT ![c] = NoResult]
    /\ callFetches' = [callFetches EXCEPT ![c] = 0]
    /\ checkKind' = [checkKind EXCEPT ![c] = None]
    /\ arrival' = [arrival EXCEPT ![c] = None]
    /\ seen' = [seen EXCEPT ![c] = NoSeen]
    /\ UNCHANGED <<g, mu, clock, calls, fetches, origin, lastOkFetch, lastOkAt,
                   lastInitFailed, expiredCalls, cancelled>>
    /\ GenFrame

\* the caller's context is cancelled (or its deadline passes) while one of
\* the two fetches is in flight; generateID(method, path) takes no context
\* and both fetches are built without one, so nothing in it observes this
Cancel(c) ==
    /\ pc[c] \in {"fetchHomepage", "fetchOnDemand"}
    /\ ~cancelled[c]
    /\ cancelled' = [cancelled EXCEPT ![c] = TRUE]
    /\ UNCHANGED <<g, mu, pc, clock, result, calls, fetches, origin, lastOkFetch,
                   lastOkAt, lastInitFailed, expiredCalls, callFetches, checkKind,
                   arrival, seen>>
    /\ GenFrame

\* time passes
Tick ==
    /\ clock + TickMinutes <= MaxClock
    /\ clock' = clock + TickMinutes
    /\ UNCHANGED <<g, mu, pc, result, calls, fetches, origin, lastOkFetch, lastOkAt,
                   lastInitFailed, expiredCalls, callFetches, checkKind, arrival>>
    /\ UNCHANGED <<seen, cancelled>>
    /\ GenFrame

PowOff ==
    /\ powPc = "off"
    /\ config = <<>>
    /\ config0 = <<>>
    /\ seed = <<>>
    /\ diff = <<>>
    /\ iter = 0
    /\ elapsed = 0
    /\ powResult = [token |-> <<>>, solved |-> FALSE]
    /\ tried = <<>>

TokOff ==
    /\ tokPc = "off"
    /\ tokIn = <<>>
    /\ tokOut = <<>>

Init == GenInit /\ PowOff /\ TokOff /\ AnimOff /\ TrOff /\ AskOff /\ StOff /\ RestOff

Next ==
    \/ \E c \in Callers : Call(c)
    \/ \E c \in Callers : Lock(c)
    \/ \E c \in Callers : EnsureCheck(c)
    \/ \E c \in Callers : FetchHomepageReturn(c)
    \/ \E c \in Callers : FetchOnDemandReturn(c)
    \/ \E c \in Callers : Compute(c)
    \/ \E c \in Callers : Return(c)
    \/ Tick

Spec == Init /\ [][Next]_vars

\* the generator at one point in time, against a site that also serves
\* pages without the verification meta tag and pages without
\* loading-animation blocks, with callers whose context may be cancelled
\* during a fetch
InitPages ==
    /\ GenStart /\ served = PageKinds
    /\ PowOff /\ TokOff /\ AnimOff /\ TrOff /\ AskOff /\ StOff /\ RestOff

NextPages ==
    \/ \E c \in Callers : Call(c)
    \/ \E c \in Callers : Lock(c)
    \/ \E c \in Callers : EnsureCheck(c)
    \/ \E c \in Callers : FetchHomepageReturn(c)
    \/ \E c \in Callers : FetchOnDemandReturn(c)
    \/ \E c \in Callers : Compute(c)
    \/ \E c \in Callers : Return(c)
    \/ \E c \in Callers : Cancel(c)

SpecPages == InitPages /\ [][NextPages]_vars

(***************************************************************************)
(* Properties of the transaction generator                                *)
(***************************************************************************)

InCritical(c) == pc[c] \in {"ensure", "fetchHomepage", "fetchOnDemand", "compute"}

AllFrom(src, n) == \A f \in OriginFields : src[f] = n

\* C1: executions of ensureInitialized never overlap (at most one caller is
\* between Lock and Unlock), and while the last successful initialization is
\* younger than the TTL no homepage fetch was started after it, so callers
\* that arrived together on a cold or expired cache share that one fetch:
\* every token returned since is built from its material alone.
C1_SingleInitialization ==
    /\ Cardinality({c \in Callers : InCritical(c)}) <= 1
    /\ (mu = Unlocked) <=> (\A c \in Callers : ~InCritical(c))
    /\ (lastOkFetch > 0 /\ clock - lastOkAt < transactionCacheTTL) =>
          /\ fetches = lastOkFetch
          /\ \A c \in Callers :
                (pc[c] = "done" /\ ~result[c].err /\ result[c].fetchNo = lastOkFetch)
                    => AllFrom(result[c].src, lastOkFetch)

\* two callers that both arrived on a cold cache have both returned a token
\* and one homepage fetch was made
C1_Witness ==
    \E c1, c2 \in Callers :
        /\ c1 # c2
        /\ arrival[c1] = "cold" /\ arrival[c2] = "cold"
        /\ pc[c1] = "done" /\ pc[c2] = "done"
        /\ ~result[c1].err /\ ~result[c2].err
        /\ fetches = 1
        /\ AllFrom(result[c1].src, 1) /\ AllFrom(result[c2].src, 1)

\* C2: a call that finds the last successful initialization younger than
\* the TTL starts no homepage fetch, and the first call that finds it at
\* least TTL old starts exactly one.
C2_TTLRefetch ==
    \A c \in Callers :
        /\ checkKind[c] = "fresh" => callFetches[c] = 0
        /\ checkKind[c] = "expired_first" => callFetches[c] = 1

\* a call made TTL or more after the last success refetched once and returned
\* a token, and another call inside the TTL did not fetch
C2_Witness ==
    \E c, d \in Callers :
        /\ checkKind[c] = "expired_first"
        /\ pc[c] = "done"
        /\ ~result[c].err
        /\ callFetches[c] = 1
        /\ lastOkFetch = 2
        /\ checkKind[d] = "fresh"
        /\ pc[d] = "done"
        /\ callFetches[d] = 0

\* C3: after ensureInitialized returned an error the next generateID call
\* starts again at the homepage fetch.
C3_ErrorInvalidatesCache ==
    [][\A c \in Callers :
          (lastInitFailed /\ pc[c] = "ensure" /\ pc'[c] # "ensure")
              => pc'[c] = "fetchHomepage"]_vars

\* C4: whenever generateID computes a token, all cached fields were written
\* by the same homepage fetch.
C4_FieldsFromOneFetch ==
    \A c \in Callers :
        pc[c] = "compute" => \A f1, f2 \in OriginFields : origin[f1] = origin[f2]

\* what getIndices left a call with an error and no token
FailedCall(c) == pc[c] = "done" /\ result[c].err /\ result[c].token = <<>>

\* C11: a page without the ondemand.s reference, or a script with fewer than
\* two index matches, ends the call with an error and an empty token; with two
\* or more matches the call goes on, the first match is defaultRowIndex and
\* the rest, in order, are defaultKeyIndices.
C11_IndicesOrError ==
    \A c \in Callers :
        /\ seen[c].kind = "noref" => FailedCall(c)
        /\ (seen[c].kind = "script" /\ Len(seen[c].indices) < 2) => FailedCall(c)
        /\ (seen[c].kind = "script" /\ Len(seen[c].indices) >= 2) =>
              /\ pc[c] \in {"compute", "done"}
              /\ pc[c] = "done" => ~result[c].err
              /\ pc[c] = "compute" =>
                    /\ g.initialized
                    /\ g.defaultRowIndex = seen[c].indices[1]
                    /\ g.defaultKeyIndices =
                          [k \in 1..(Len(seen[c].indices) - 1) |-> seen[c].indices[k + 1]]

\* one call failed on a one-match script while another holds three matches
C11_Witness ==
    \E c, d \in Callers :
        /\ seen[c].kind = "script" /\ Len(seen[c].indices) = 1 /\ FailedCall(c)
        /\ seen[d].kind = "script" /\ Len(seen[d].indices) = 3
        /\ pc[d] = "compute"
        /\ g.defaultRowIndex = 1
        /\ g.defaultKeyIndices = <<3, 4>>

\* C12: a call whose homepage has no verification key, or no
\* loading-animation block, never gets as far as computing a token: the
\* initialization it ran returned an error.
C12_MissingKeyOrAnimationFatal ==
    \A c \in Callers :
        (pc[c] = "compute" /\ callFetches[c] > 0) =>
            /\ getKey(g.homePageHTML) # <<>>
            /\ getFramesD(g.homePageHTML.svgs) # <<>>

\* C16: once the caller's context is done while a fetch is in flight, that
\* fetch ends only in an error return of generateID.
C16_CancelAbortsFetch ==
    [][\A c \in Callers :
          (cancelled[c] /\ pc[c] \in {"fetchHomepage", "fetchOnDemand"}
              /\ pc'[c] # pc[c])
              => (pc'[c] = "done" /\ result'[c].err)]_vars

(***************************************************************************)
(* solveProofOfWork (chatgpt/sentinel.go)                                 *)
(***************************************************************************)

\* the loop bound; 1_000_000 in the source, scaled for exploration
maxIterations == 4

\* largest elapsed-milliseconds reading of a run
MaxElapsed == 2

\* "gAAAAABwQ8Lk5FbGpA2NcR9dShT6gYjU7VxZ4D"
errorPrefix ==
    <<103, 65, 65, 65, 65, 65, 66, 119, 81, 56, 76, 107, 53, 70, 98, 71, 112, 65, 50,
      78, 99, 82, 57, 100, 83, 104, 84, 54, 103, 89, 106, 85, 55, 86, 120, 90, 52, 68>>

\* "gAAAAAB"
resultPrefix == <<103, 65, 65, 65, 65, 65, 66>>

Quote == 34

Backslash == 92

\* json.Marshal of a string: quotes and backslashes are escaped, and < > &
\* are written as \u00XX escapes
JsonEscape(ch) ==
    CASE ch = Quote -> <<Backslash, Quote>>
      [] ch = Backslash -> <<Backslash, Backslash>>
      [] ch = 60 -> <<92, 117, 48, 48, 51, 99>>
      [] ch = 62 -> <<92, 117, 48, 48, 51, 101>>
      [] ch = 38 -> <<92, 117, 48, 48, 50, 54>>
      [] OTHER -> <<ch>>

RECURSIVE JsonEscapeAll(_)
JsonEscapeAll(str) ==
    IF str = <<>> THEN <<>> ELSE JsonEscape(Head(str)) \o JsonEscapeAll(Tail(str))

JsonString(str) == <<Quote>> \o JsonEscapeAll(str) \o <<Quote>>

\* config elements: integers, strings, and numbers given by their rendering
\* (the float 885.5.. and the int64 4294705152)
IntField(n) == [t |-> "int", v |-> n]

StrField(str) == [t |-> "str", v |-> str]

LitField(lit) == [t |-> "lit", v |-> lit]

JsonValue(f) ==
    CASE f.t = "int" -> Decimal(f.v)
      [] f.t = "str" -> JsonString(f.v)
      [] OTHER -> f.v

RECURSIVE JsonElements(_, _)
JsonElements(cfg, k) ==
    IF k > Len(cfg) THEN <<>>
    ELSE (IF k > 1 THEN <<44>> ELSE <<>>) \o JsonValue(cfg[k]) \o JsonElements(cfg, k + 1)

\* json.Marshal(config): a JSON array
JsonMarshal(cfg) == <<91>> \o JsonElements(cfg, 1) \o <<93>>

\* the 14-field tuple of buildConfig, with short strings; counter is field 3
\* and elapsed is field 9 of the source (positions 4 and 10 here)
BuildConfig(sum, parseTime, userAgent, counter, ms) ==
    << IntField(sum), StrField(parseTime), LitField(<<52, 50, 57, 52, 55, 48, 53, 49, 53, 50>>), IntField(counter),
       StrField(userAgent), StrField(<<106, 115>>), StrField(<<100, 112, 108>>),
       StrField(<<101, 110, 45, 85, 83>>), StrField(<<101, 110, 45, 85, 83, 44, 101, 110>>),
       IntField(ms), StrField(<<110, 97, 118>>),
       StrField(<<108, 111, 99, 97, 116, 105, 111, 110>>), StrField(<<119, 105, 110>>),
       LitField(<<56, 56, 53, 46, 53>>) >>

PowConfigs ==
    { BuildConfig(3001, <<116, 48>>, <<85, 65>>, 0, 0),
      BuildConfig(6024, <<116, 49>>, <<77, 111, 122, 105, 108, 108, 97>>, 7, 99) }

\* "s1", "0.42", a"b, and a single backslash
PowSeeds == {<<115, 49>>, <<48, 46, 52, 50>>, <<97, 34, 98>>, <<92>>}

\* a difficulty of 130 hex digits: more bytes than the digest has
LongDiff == [i \in 1..130 |-> 48]

\* "", "0", "3f", "ff", "0fff", "7F", "0f00" and LongDiff
PowDiffs ==
    { <<>>, <<48>>, <<51, 102>>, <<102, 102>>, <<48, 102, 102, 102>>, <<55, 70>>,
      <<48, 102, 48, 48>>, LongDiff }

\* diffLen := len(diff) / 2; if diffLen == 0 { diffLen = 1 }
DiffLen(d) == IF Len(d) \div 2 = 0 THEN 1 ELSE Len(d) \div 2

\* hash[:diffLen] is within the digest slice
PrefixInRange(d) == DiffLen(d) <= Sha3_512Len

MeetsDifficultyFlipped(sd, b64, d) ==
    StrLeq(d, HexEncodeToString(SubSeq(Sha3_512Sum(sd \o b64), 1, DiffLen(d))))

\* hex.EncodeToString(hash[:diffLen]) <= diff
MeetsDifficulty(sd, b64, d) ==
    StrLeq(HexEncodeToString(SubSeq(Sha3_512Sum(sd \o b64), 1, DiffLen(d))), d)

\* errorPrefix + base64("\"" + seed + "\"")
Fallback(sd) == errorPrefix \o Base64Encode(<<Quote>> \o sd \o <<Quote>>)

PowFrame == UNCHANGED <<genVars, tokVars, animVars, trVars, askVars, stVars,
        restVars>>

\* config[3] = i; config[9] = time.Since(startTime).Milliseconds()
StampConfigAndSum(cfg, i, ms) ==
    [cfg EXCEPT ![1] = IntField(i), ![4] = IntField(i), ![10] = IntField(ms)]

StampConfig(cfg, i, ms) ==
    [cfg EXCEPT ![4] = IntField(i), ![10] = IntField(ms)]

PowInit ==
    /\ powPc = "start"
    /\ config \in PowConfigs
    /\ config0 = config
    /\ seed \in PowSeeds
    /\ diff \in PowDiffs
    /\ iter = 0
    /\ elapsed = 0
    /\ powResult = [token |-> <<>>, solved |-> FALSE]
    /\ tried = <<>>

PowStartAtOne ==
    /\ powPc = "start"
    /\ powPc' = "loop"
    /\ iter' = 1
    /\ elapsed' = 0
    /\ UNCHANGED <<config, config0, seed, diff, powResult, tried>>
    /\ PowFrame

\* diffLen, hasher, seedBytes and startTime are set up; i := 0
PowStart ==
    /\ powPc = "start"
    /\ powPc' = "loop"
    /\ iter' = 0
    /\ elapsed' = 0
    /\ UNCHANGED <<config, config0, seed, diff, powResult, tried>>
    /\ PowFrame

\* one pass of the loop body: stamp the config, serialize, hash, compare
PowIterate ==
    /\ powPc = "loop"
    /\ iter < maxIterations
    /\ \E ms \in elapsed..MaxElapsed :
        /\ ms <= elapsed + 1
        /\ elapsed' = ms
        /\ config' = StampConfig(config, iter, ms)
    /\ LET b64 == Base64Encode(JsonMarshal(config'))
       IN  IF ~PrefixInRange(diff)
           THEN \* slice bounds out of range: the call panics
                /\ powPc' = "panic"
                /\ UNCHANGED <<iter, powResult, tried>>
           ELSE /\ tried' = Append(tried, [i |-> iter, b64 |-> b64])
                /\ IF MeetsDifficulty(seed, b64, diff)
                   THEN /\ powResult' = [token |-> resultPrefix \o b64, solved |-> TRUE]
                        /\ powPc' = "done"
                        /\ UNCHANGED iter
                   ELSE /\ iter' = iter + 1
                        /\ UNCHANGED <<powPc, powResult>>
    /\ UNCHANGED <<config0, seed, diff>>
    /\ PowFrame

\* the loop ran out: the fallback token is returned with solved = false
PowExhaust ==
    /\ powPc = "loop"
    /\ iter >= maxIterations
    /\ powResult' = [token |-> Fallback(seed), solved |-> FALSE]
    /\ powPc' = "done"
    /\ UNCHANGED <<config, config0, seed, diff, iter, elapsed, tried>>
    /\ PowFrame

InitPow == GenInit /\ PowInit /\ TokOff /\ AnimOff /\ TrOff /\ AskOff /\ StOff /\ RestOff

NextPow == PowStart \/ PowIterate \/ PowExhaust

SpecPow == InitPow /\ [][NextPow]_vars

(***************************************************************************)
(* Properties of solveProofOfWork                                         *)
(***************************************************************************)

\* the difficulty test as the specification words it: the lowercase hex of
\* the first max(1, len(diff)/2) digest bytes of seed ++ b64 is <= diff
ClaimMeets(b64) ==
    StrLeq(HexEncodeToString(SubSeq(Sha3_512Sum(seed \o b64), 1,
                                    Max(1, Len(diff) \div 2))), diff)

PowSolved == powPc = "done" /\ powResult.solved

TokenBody == SubSeq(powResult.token, Len(resultPrefix) + 1, Len(powResult.token))

\* C5: a solved result is "gAAAAAB" + b64 where b64 is the base64 of the JSON
\* array hashed in the winning iteration, and the hex of the first
\* max(1, len(diff)/2) bytes of SHA3-512(seed ++ b64) is <= diff.
C5_SolvedMeetsDifficulty ==
    PowSolved =>
        /\ SubSeq(powResult.token, 1, Len(resultPrefix)) = resultPrefix
        /\ TokenBody = tried[Len(tried)].b64
        /\ TokenBody = Base64Encode(JsonMarshal(config))
        /\ ClaimMeets(TokenBody)

\* a two-byte difficulty solved after at least one failed iteration
C5_Witness ==
    /\ PowSolved
    /\ Len(diff) = 4
    /\ Len(tried) >= 2

\* C6: iterations run with i = 0, 1, 2, ... and the call returns at the first
\* one whose hash meets the difficulty; the payload is the config serialized
\* with its iteration field equal to that i.
C6_FirstMeetingIndex ==
    PowSolved =>
        LET n == Len(tried)
        IN  /\ n >= 1
            /\ \A k \in 1..n : tried[k].i = k - 1
            /\ \A k \in 1..(n - 1) : ~ClaimMeets(tried[k].b64)
            /\ ClaimMeets(tried[n].b64)
            /\ config[4] = IntField(n - 1)
            /\ TokenBody = Base64Encode(JsonMarshal([config EXCEPT ![4] = IntField(n - 1)]))

\* solved at index 2 or later
C6_Witness ==
    /\ PowSolved
    /\ Len(tried) >= 3
    /\ config[4] = IntField(Len(tried) - 1)

\* C7: on exhaustion the result is solved = false with the error marker
\* followed by the base64 of the seed as a quoted JSON string, for every seed.
C7_FallbackIsJsonString ==
    (powPc = "done" /\ ~powResult.solved) =>
        powResult.token = errorPrefix \o Base64Encode(JsonString(seed))

\* C8: every call returns a non-empty token after at most maxIterations
\* iterations, and solved = false exactly when all of them ran and none met
\* the difficulty.
C8_AlwaysReturnsToken ==
    /\ powPc # "panic"
    /\ Len(tried) <= maxIterations
    /\ powPc = "done" =>
          /\ powResult.token # <<>>
          /\ ~powResult.solved <=>
                /\ Len(tried) = maxIterations
                /\ \A k \in 1..Len(tried) : ~ClaimMeets(tried[k].b64)

\* C18: while solveProofOfWork runs and after it returns, the config has its
\* 14 fields and differs from the config at call entry at most in field 3
\* (the counter) and field 9 (the elapsed milliseconds), counted from 0.
C18_OnlyCounterAndElapsedChange ==
    powPc \in {"loop", "done", "panic"} =>
        /\ Len(config) = 14
        /\ Len(config0) = 14
        /\ \A k \in 0..13 : k \notin {3, 9} => config[k + 1] = config0[k + 1]

\* the solver has stamped a counter and an elapsed time that differ from the
\* ones the config came with
C18_Witness ==
    /\ powPc = "done"
    /\ config[4] # config0[4]
    /\ config[10] # config0[10]
    /\ \A k \in 0..13 : k \notin {3, 9} => config[k + 1] = config0[k + 1]

\* the value of a hexadecimal digit in either letter case
HexValue(ch) ==
    IF ch >= 48 /\ ch <= 57 THEN ch - 48
    ELSE IF ch >= 97 /\ ch <= 102 THEN ch - 87
    ELSE ch - 55

IsHex(str) ==
    \A i \in 1..Len(str) :
        \/ str[i] >= 48 /\ str[i] <= 57
        \/ str[i] >= 97 /\ str[i] <= 102
        \/ str[i] >= 65 /\ str[i] <= 70

\* the first len(diff)/2 bytes of SHA3-512(seed ++ b64), as a big-endian
\* number, are <= diff as a hexadecimal number: digit by digit, most
\* significant first
RawBytesLeq(b64) ==
    LET hash == Sha3_512Sum(seed \o b64)
        n == Len(diff)
        hd(j) == IF j % 2 = 1 THEN hash[(j + 1) \div 2] \div 16
                 ELSE hash[(j + 1) \div 2] % 16
    IN  \/ \A j \in 1..n : hd(j) = HexValue(diff[j])
        \/ \E k \in 1..n :
              /\ hd(k) < HexValue(diff[k])
              /\ \A j \in 1..(k - 1) : hd(j) = HexValue(diff[j])

\* the iteration recorded as tried[k] was accepted
Accepted(k) == k = Len(tried) /\ PowSolved

\* C27: for a hexadecimal difficulty of even length >= 2, in either letter
\* case, an iteration is accepted exactly when the first len(diff)/2 hash
\* bytes, as a big-endian number, are <= the difficulty as a number.
C27_AcceptsIffRawBytesLeq ==
    (powPc \in {"loop", "done"} /\ Len(diff) >= 2 /\ Len(diff) % 2 = 0 /\ IsHex(diff)) =>
        \A k \in 1..Len(tried) :
            (k < Len(tried) \/ powPc = "done") =>
                (Accepted(k) <=> RawBytesLeq(tried[k].b64))

(***************************************************************************)
(* generateID's token computation on its own, over a range of inputs      *)
(***************************************************************************)

\* longest keyBytes tried
MaxKeyLen == 8

\* "GET"
MethodGet == <<71, 69, 84>>

TokKeyBytes == {[i \in 1..n |-> (i * 37 + 200) % 256] : n \in 0..MaxKeyLen}

\* seconds since the epoch offset: 0, one day, 3 * 2^24 + 258, 2^31 - 1
TokNows == {0, 86400, 50331906, 2147483647}

TokRandomBytes == {0, 1, 165, 255}

TokInputs ==
    [keyBytes : TokKeyBytes, animationKey : {<<>>, <<97, 49>>},
     method : {MethodPost, MethodGet}, path : {PathA},
     now : TokNows, rnd : TokRandomBytes]

TokFrame == UNCHANGED <<genVars, powVars, animVars, trVars, askVars, stVars,
        restVars>>

TokInit ==
    /\ tokPc = "ready"
    /\ tokIn \in TokInputs
    /\ tokOut = <<>>

\* lines 75-103 of generateID on a ready cache
TokGenerate ==
    /\ tokPc = "ready"
    /\ tokOut' = generateIDToken(tokIn.keyBytes, tokIn.animationKey, tokIn.method,
                                 tokIn.path, tokIn.now, tokIn.rnd)
    /\ tokPc' = "done"
    /\ UNCHANGED tokIn
    /\ TokFrame

InitTok == GenInit /\ PowOff /\ TokInit /\ AnimOff /\ TrOff /\ AskOff /\ StOff /\ RestOff

NextTok == TokGenerate

SpecTok == InitTok /\ [][NextTok]_vars

\* the returned token decoded after re-padding with "="
TokDecoded == Base64Decode(PadToFour(tokOut))

\* every byte after the first XOR-ed with the first
TokUnmasked ==
    Once(LAMBDA bs : [i \in 1..(Len(bs) - 1) |-> Xor(bs[i + 1], bs[1])],
         TokDecoded.bytes)

\* C9: the token, base64-decoded after re-padding, has length
\* len(keyBytes) + 4 + 16 + 1 + 1.
C9_DecodedLength ==
    tokPc = "done" =>
        /\ TokDecoded.ok
        /\ Len(TokDecoded.bytes) = Len(tokIn.keyBytes) + 4 + 16 + 1 + 1

\* a 7-byte key whose token lost its padding
C9_Witness ==
    /\ tokPc = "done"
    /\ Len(tokIn.keyBytes) = 7
    /\ Len(tokOut) % 4 # 0
    /\ Len(TokDecoded.bytes) = 29

\* C10: the decoded token starts with the random byte, and XOR-ing the
\* following bytes with it gives keyBytes, then the time as 4 little-endian
\* bytes, then the first 16 digest bytes, then the byte 3.
C10_XorRoundTrip ==
    tokPc = "done" =>
        LET p == TokUnmasked
            k == Len(tokIn.keyBytes)
        IN  /\ TokDecoded.bytes[1] = tokIn.rnd
            /\ Len(p) = k + 21
            /\ SubSeq(p, 1, k) = tokIn.keyBytes
            /\ p[k + 1] + 256 * p[k + 2] + 65536 * p[k + 3] + 16777216 * p[k + 4]
                   = tokIn.now
            /\ SubSeq(p, k + 5, k + 20) =
                   SubSeq(Sha256Sum(TransactionData(tokIn.method, tokIn.path, tokIn.now,
                                                    tokIn.animationKey)), 1, 16)
            /\ p[k + 21] = 3

\* a non-zero random byte masks a full key and a time with four non-zero bytes
C10_Witness ==
    /\ tokPc = "done"
    /\ tokIn.rnd = 165
    /\ Len(tokIn.keyBytes) = MaxKeyLen
    /\ tokIn.now = 2147483647
    /\ TokDecoded.bytes[1] = 165
    /\ TokDecoded.bytes # <<165>> \o BytesArr(tokIn.keyBytes, tokIn.animationKey,
                                              tokIn.method, tokIn.path, tokIn.now)

(***************************************************************************)
(* chromeTransport.RoundTrip (cmd/ask/main.go, package httpclient)        *)
(***************************************************************************)

\* RoundTrip calls explored
MaxTrips == 3

\* "chatgpt.com"
TrHost == <<99, 104, 97, 116, 103, 112, 116, 46, 99, 111, 109>>

\* "8443", "443", "80"
Port8443 == <<56, 52, 52, 51>>

Port443 == <<52, 52, 51>>

Port80 == <<56, 48>>

\* requests: scheme, URL.Hostname() and URL.Port() ("" when the URL has none)
TrRequests ==
    {[scheme |-> sc, host |-> TrHost, port |-> pt] :
        sc \in {"http", "https"}, pt \in {<<>>, Port8443}}

\* what the server can pick from NextProtos, or nothing
Alpns == {"h2", "http/1.1", ""}

portFromURLAlways80(u) ==
    IF u.port # <<>> THEN u.port ELSE Port80

portFromURL(u) ==
    IF u.port # <<>> THEN u.port
    ELSE IF u.scheme = "https" THEN Port443
    ELSE Port80

\* net.JoinHostPort: host:port, the host in brackets when it holds a colon
\* or a percent sign
JoinHostPort(host, port) ==
    IF \E i \in 1..Len(host) : host[i] \in {58, 37}
    THEN <<91>> \o host \o <<93, 58>> \o port
    ELSE host \o <<58>> \o port

\* the transport RoundTrip hands the request to after the handshake
Protocol(alpn) == IF alpn = "h2" THEN "h2" ELSE "h1"

\* rawConn.Close()
CloseConnNot(cs, i) == cs

CloseConn(cs, i) == [cs EXCEPT ![i].closed = TRUE]

TrFrame == UNCHANGED <<genVars, powVars, tokVars, animVars, askVars, stVars,
        restVars>>

TrInit ==
    /\ trPc = "idle"
    /\ trReq = <<>>
    /\ conns = <<>>
    /\ trLog = <<>>

\* the current RoundTrip's entry of the log
Trip == Len(trLog)

\* RoundTrip is entered: a request that is not https goes to
\* http.DefaultTransport and its result is returned; for https the address
\* is built and DialContext is called
TrRoundTrip ==
    /\ trPc = "idle"
    /\ Len(trLog) < MaxTrips
    /\ \E req \in TrRequests :
        /\ trReq' = req
        /\ IF req.scheme # "https"
           THEN /\ \E out \in {"resp", "err"} :
                    trLog' = Append(trLog,
                        [req |-> req, dials |-> 0, handshakes |-> 0, conn |-> 0,
                         via |-> "std", keepAlives |-> TRUE, outcome |-> out])
                /\ trPc' = "idle"
           ELSE /\ trLog' = Append(trLog,
                        [req |-> req, dials |-> 1, handshakes |-> 0, conn |-> 0,
                         via |-> "none", keepAlives |-> TRUE, outcome |-> "pending"])
                /\ trPc' = "dial"
    /\ UNCHANGED conns
    /\ TrFrame

\* DialContext returns: an error is returned as is; a connection is wrapped
\* by utls.UClient and Handshake is called
TrDialReturn ==
    /\ trPc = "dial"
    /\ \/ /\ trLog' = [trLog EXCEPT ![Trip].outcome = "err"]
          /\ trPc' = "idle"
          /\ UNCHANGED conns
       \/ /\ conns' = Append(conns,
                 [addr |-> JoinHostPort(trReq.host, portFromURL(trReq)),
                  trip |-> Trip, closed |-> FALSE, hs |-> "none", alpn |-> ""])
          /\ trLog' = [trLog EXCEPT ![Trip].conn = Len(conns) + 1,
                                    ![Trip].handshakes = @ + 1]
          /\ trPc' = "handshake"
    /\ UNCHANGED trReq
    /\ TrFrame

\* Handshake returns: on an error rawConn is closed and the error returned;
\* otherwise the negotiated protocol selects the transport for the request
TrHandshakeReturn ==
    /\ trPc = "handshake"
    /\ LET c == trLog[Trip].conn
       IN  \/ /\ conns' = CloseConn([conns EXCEPT ![c].hs = "failed"], c)
              /\ trLog' = [trLog EXCEPT ![Trip].outcome = "err"]
              /\ trPc' = "idle"
           \/ \E alpn \in Alpns :
              /\ conns' = [conns EXCEPT ![c].hs = "ok", ![c].alpn = alpn]
              /\ trLog' = [trLog EXCEPT
                              ![Trip].via = Protocol(alpn),
                              \* the http.Transport has DisableKeepAlives: true
                              ![Trip].keepAlives = (Protocol(alpn) = "h2")]
              /\ trPc' = "send"
    /\ UNCHANGED trReq
    /\ TrFrame

\* h2t.RoundTrip(req) or h1t.RoundTrip(req) returns; both transports were
\* given tlsConn as the result of their one dial
TrSendReturn ==
    /\ trPc = "send"
    /\ \E out \in {"resp", "err"} :
        trLog' = [trLog EXCEPT ![Trip].outcome = out]
    /\ trPc' = "idle"
    /\ UNCHANGED <<trReq, conns>>
    /\ TrFrame

InitTr == GenInit /\ PowOff /\ TokOff /\ AnimOff /\ TrInit /\ AskOff /\ StOff /\ RestOff

NextTr == TrRoundTrip \/ TrDialReturn \/ TrHandshakeReturn \/ TrSendReturn

SpecTr == InitTr /\ [][NextTr]_vars

\* the connections dialed by RoundTrip number t
ConnsOf(t) == {c \in 1..Len(conns) : conns[c].trip = t}

\* the address an https request is dialed at
ExpectedAddr(req) ==
    req.host \o <<58>> \o (IF req.port = <<>> THEN Port443 ELSE req.port)

\* C13: a request that is not https is handed to the standard transport and
\* dials nothing; an https request is sent on the connection its own
\* handshake ran on, over HTTP/2 when "h2" was negotiated and otherwise over
\* HTTP/1.1 without keep-alives; the dial goes to the URL's port, or 443.
C13_ProtocolSelection ==
    \A t \in 1..Len(trLog) :
        LET e == trLog[t]
        IN  /\ e.req.scheme # "https" =>
                  e.via = "std" /\ e.dials = 0 /\ e.conn = 0 /\ ConnsOf(t) = {}
            /\ e.req.scheme = "https" => e.via # "std"
            /\ e.via \in {"h2", "h1"} =>
                  /\ e.conn \in ConnsOf(t)
                  /\ conns[e.conn].hs = "ok"
                  /\ conns[e.conn].alpn = "h2" => e.via = "h2" /\ e.keepAlives
                  /\ conns[e.conn].alpn # "h2" => e.via = "h1" /\ ~e.keepAlives
            /\ e.conn # 0 => conns[e.conn].addr = ExpectedAddr(e.req)

\* three completed calls: plain http, https over h2 on port 443, https over
\* HTTP/1.1 after the server picked no protocol
C13_Witness ==
    /\ trPc = "idle"
    /\ \E t1, t2, t3 \in 1..Len(trLog) :
        /\ trLog[t1].via = "std" /\ trLog[t1].outcome = "resp"
        /\ trLog[t2].via = "h2" /\ trLog[t2].outcome = "resp"
        /\ trLog[t2].req.port = <<>>
        /\ conns[trLog[t2].conn].addr = TrHost \o <<58>> \o Port443
        /\ trLog[t3].via = "h1" /\ trLog[t3].outcome = "resp"
        /\ conns[trLog[t3].conn].alpn = ""

\* C14: an https RoundTrip dials once and handshakes at most once, on a
\* connection of its own; a failed dial or handshake ends it with the error
\* and no further attempt, and after a failed handshake the connection is
\* closed.
C14_OneDialOneHandshake ==
    \A t \in 1..Len(trLog) :
        LET e == trLog[t]
        IN  e.req.scheme = "https" =>
              /\ e.dials = 1
              /\ e.handshakes <= 1
              /\ Cardinality(ConnsOf(t)) <= 1
              /\ e.conn # 0 => ConnsOf(t) = {e.conn} /\ e.handshakes = 1
              /\ e.conn = 0 => ConnsOf(t) = {} /\ e.handshakes = 0
              /\ (e.conn = 0 /\ (t < Len(trLog) \/ trPc = "idle")) =>
                    e.outcome = "err" /\ e.via = "none"
              /\ (e.conn # 0 /\ conns[e.conn].hs = "failed") =>
                    e.outcome = "err" /\ e.via = "none" /\ conns[e.conn].closed
              /\ e.outcome = "resp" => conns[e.conn].hs = "ok"
              /\ \A u \in 1..Len(trLog) : (u # t /\ e.conn # 0) => trLog[u].conn # e.conn

\* a failed dial, a failed handshake with its connection closed, and a call
\* that got a response on a connection of its own
C14_Witness ==
    /\ trPc = "idle"
    /\ \E t1, t2, t3 \in 1..Len(trLog) :
        /\ trLog[t1].req.scheme = "https" /\ trLog[t1].conn = 0
        /\ trLog[t1].outcome = "err"
        /\ trLog[t2].conn # 0 /\ conns[trLog[t2].conn].hs = "failed"
        /\ conns[trLog[t2].conn].closed
        /\ trLog[t3].outcome = "resp" /\ trLog[t3].conn # 0
        /\ trLog[t3].conn # trLog[t2].conn

(***************************************************************************)
(* Provider.Ask and acquireSentinel (chatgpt)                              *)
(***************************************************************************)

\* "ct": a chat-requirements token
ChatTokenCT == <<99, 116>>

\* buildConfig: counter and elapsed time start at 0
AskConfigs == {cfg \in PowConfigs : cfg[4] = IntField(0) /\ cfg[10] = IntField(0)}

\* what the chat-requirements request can come back with
SentinelResponses ==
    {[kind |-> k, token |-> <<>>, required |-> FALSE, seed |-> <<>>, diff |-> <<>>] :
        k \in {"err", "status", "decode", "force_login"}}
    \cup {[kind |-> "ok", token |-> t, required |-> FALSE, seed |-> <<>>, diff |-> <<>>] :
             t \in {<<>>, ChatTokenCT}}
    \cup {[kind |-> "ok", token |-> ChatTokenCT, required |-> TRUE, seed |-> sd, diff |-> d] :
             sd \in PowSeeds, d \in PowDiffs}

\* acquireSentinel returned (nil, err)
NilSentinel ==
    [nil |-> TRUE, ChatToken |-> <<>>, ProofToken |-> <<>>,
     required |-> FALSE, solved |-> FALSE]

\* result.ProofToken = token
ProofTokenIfSolved(token, solved) == IF solved THEN token ELSE <<>>

ProofTokenOf(token, solved) == token

NoAskReq == [sent |-> FALSE, chatHeader |-> <<>>, proofHeader |-> <<>>]

AskFrame == UNCHANGED <<genVars, tokVars, animVars, trVars, stVars,
        restVars>>

AskInit ==
    /\ askPc = "start"
    /\ sentinel = NilSentinel
    /\ askReq = NoAskReq

\* Ask up to the sentinel request: without a session cookie, or when the
\* access token cannot be had, Ask returns an error
AskBegin ==
    /\ askPc = "start"
    /\ \E sessionToken \in BOOLEAN, accessToken \in BOOLEAN :
        askPc' = IF sessionToken /\ accessToken THEN "sentinel" ELSE "aborted"
    /\ UNCHANGED <<sentinel, askReq, powVars>>
    /\ AskFrame

\* the chat-requirements response arrives: any failure makes acquireSentinel
\* return (nil, err), which Ask logs and ignores; with proof of work required
\* solveProofOfWork is called on a fresh config
AskSentinelReturn ==
    /\ askPc = "sentinel"
    /\ \E resp \in SentinelResponses, cfg \in AskConfigs :
        IF resp.kind # "ok" \/ resp.token = <<>>
        THEN /\ sentinel' = NilSentinel
             /\ askPc' = "build"
             /\ UNCHANGED powVars
        ELSE IF ~resp.required
        THEN /\ sentinel' = [nil |-> FALSE, ChatToken |-> resp.token,
                             ProofToken |-> <<>>, required |-> FALSE, solved |-> FALSE]
             /\ askPc' = "build"
             /\ UNCHANGED powVars
        ELSE /\ sentinel' = [nil |-> FALSE, ChatToken |-> resp.token,
                             ProofToken |-> <<>>, required |-> TRUE, solved |-> FALSE]
             /\ askPc' = "pow"
             /\ powPc' = "start"
             /\ config' = cfg
             /\ config0' = cfg
             /\ seed' = resp.seed
             /\ diff' = resp.diff
             /\ UNCHANGED <<iter, elapsed, powResult, tried>>
    /\ UNCHANGED askReq
    /\ AskFrame

\* solveProofOfWork returned (token, solved)
AskPowReturn ==
    /\ askPc = "pow"
    /\ powPc = "done"
    /\ sentinel' = [sentinel EXCEPT
                       !.ProofToken = ProofTokenOf(powResult.token, powResult.solved),
                       !.solved = powResult.solved]
    /\ askPc' = "build"
    /\ UNCHANGED <<askReq, powVars>>
    /\ AskFrame

\* solveProofOfWork panicked; nothing up to Ask's caller recovers
AskPowPanic ==
    /\ askPc = "pow"
    /\ powPc = "panic"
    /\ askPc' = "panic"
    /\ UNCHANGED <<sentinel, askReq, powVars>>
    /\ AskFrame

\* the conversation request is built, the sentinel headers are attached when
\* acquireSentinel returned a result, and client.Do is called
AskSend ==
    /\ askPc = "build"
    /\ askReq' = [sent |-> TRUE,
                  chatHeader |-> IF sentinel.nil THEN <<>> ELSE sentinel.ChatToken,
                  proofHeader |-> IF sentinel.nil THEN <<>> ELSE sentinel.ProofToken]
    /\ askPc' = "sent"
    /\ UNCHANGED <<sentinel, powVars>>
    /\ AskFrame

InitAsk == GenInit /\ PowOff /\ TokOff /\ AnimOff /\ TrOff /\ AskInit /\ StOff /\ RestOff

NextAsk ==
    \/ AskBegin
    \/ AskSentinelReturn
    \/ PowStart
    \/ PowIterate
    \/ PowExhaust
    \/ AskPowReturn
    \/ AskPowPanic
    \/ AskSend

SpecAsk == InitAsk /\ [][NextAsk]_vars

\* the solver of this Ask ran out of iterations
PowExhausted == powPc = "done" /\ ~powResult.solved

\* C15: once the solver has exhausted, acquireSentinel returns a result (no
\* error) whose ProofToken is the fallback token, Ask does not abort, and the
\* conversation request it sends carries that token in the proof-token
\* header.
C15_ExhaustionStillSends ==
    PowExhausted =>
        /\ askPc \in {"pow", "build", "sent"}
        /\ askPc \in {"build", "sent"} =>
              /\ ~sentinel.nil
              /\ sentinel.ProofToken = Fallback(seed)
              /\ sentinel.ChatToken = ChatTokenCT
        /\ askPc = "sent" =>
              /\ askReq.sent
              /\ askReq.proofHeader = Fallback(seed)
              /\ askReq.proofHeader # <<>>
              /\ askReq.chatHeader = sentinel.ChatToken

\* a request sent after maxIterations failed attempts
C15_Witness ==
    /\ PowExhausted
    /\ Len(tried) = maxIterations
    /\ askPc = "sent"
    /\ askReq.sent
    /\ askReq.proofHeader = Fallback(seed)

(***************************************************************************)
(* The conversation state file (config/state.go) and the OnConversation   *)
(* callbacks of the grok and chatgpt commands                             *)
(***************************************************************************)

\* OnConversation calls explored per provider
MaxConvs == 2

Providers == {"grok", "chatgpt"}

\* LoadState when state.json is missing, empty or cut short
EmptyState == [p \in Providers |-> 0]

\* conversation ids: a provider's n-th callback is given its n-th id
ConvId(p, n) == (IF p = "grok" THEN 10 ELSE 20) + n

\* state.json as earlier runs may have left it
StFiles == {EmptyState, [p \in Providers |-> IF p = "grok" THEN 10 ELSE 20]}

\* State.SetConversation: s.LastConversation[provider] = cs
SetConversation(st, provider, cs) == [st EXCEPT ![provider] = cs]

StFrame == UNCHANGED <<genVars, powVars, tokVars, animVars, trVars, askVars,
        restVars>>

StInit ==
    /\ stPc = [p \in Providers |-> "idle"]
    /\ stFile \in StFiles
    /\ stLocal = [p \in Providers |-> EmptyState]
    /\ stConv = [p \in Providers |-> 0]
    /\ stLatest = [p \in Providers |-> 0]
    /\ stCalls = [p \in Providers |-> 0]

\* the provider reports a conversation id: its command's callback starts
StOnConversation(p) ==
    /\ stPc[p] = "idle"
    /\ stCalls[p] < MaxConvs
    /\ stCalls' = [stCalls EXCEPT ![p] = @ + 1]
    /\ stConv' = [stConv EXCEPT ![p] = ConvId(p, stCalls[p] + 1)]
    /\ stPc' = [stPc EXCEPT ![p] = "load"]
    /\ UNCHANGED <<stFile, stLocal, stLatest>>
    /\ StFrame

\* state := config.LoadState(): the file as it is now
StLoadState(p) ==
    /\ stPc[p] = "load"
    /\ stLocal' = [stLocal EXCEPT ![p] = stFile]
    /\ stPc' = [stPc EXCEPT ![p] = "set"]
    /\ UNCHANGED <<stFile, stConv, stLatest, stCalls>>
    /\ StFrame

\* state.SetConversation(provider, ...), on the loaded copy
StSetConversation(p) ==
    /\ stPc[p] = "set"
    /\ stLocal' = [stLocal EXCEPT ![p] = SetConversation(@, p, stConv[p])]
    /\ stPc' = [stPc EXCEPT ![p] = "save"]
    /\ UNCHANGED <<stFile, stConv, stLatest, stCalls>>
    /\ StFrame

\* config.SaveState(state): os.WriteFile opens state.json truncating it
StSaveTruncate(p) ==
    /\ stPc[p] = "save"
    /\ stFile' = EmptyState
    /\ stPc' = [stPc EXCEPT ![p] = "write"]
    /\ UNCHANGED <<stLocal, stConv, stLatest, stCalls>>
    /\ StFrame

\* os.WriteFile writes the marshalled copy; the callback returns
StSaveWrite(p) ==
    /\ stPc[p] = "write"
    /\ stFile' = stLocal[p]
    /\ stLatest' = [stLatest EXCEPT ![p] = stConv[p]]
    /\ stPc' = [stPc EXCEPT ![p] = "idle"]
    /\ UNCHANGED <<stLocal, stConv, stCalls>>
    /\ StFrame

InitSt == GenInit /\ PowOff /\ TokOff /\ AnimOff /\ TrOff /\ AskOff /\ StInit /\ RestOff

NextSt ==
    \/ \E p \in Providers : StOnConversation(p)
    \/ \E p \in Providers : StLoadState(p)
    \/ \E p \in Providers : StSetConversation(p)
    \/ \E p \in Providers : StSaveTruncate(p)
    \/ \E p \in Providers : StSaveWrite(p)

SpecSt == InitSt /\ [][NextSt]_vars

\* C17: whenever no callback is running, state.json holds, for each provider
\* whose callback has run, the conversation id of its latest callback.
C17_NoLostUpdate ==
    (\A p \in Providers : stPc[p] = "idle") =>
        \A p \in Providers : stLatest[p] # 0 => stFile[p] = stLatest[p]

(***************************************************************************)
(* getAnimationKey on its own, over a range of pages and keys             *)
(***************************************************************************)

\* the most loading-animation blocks on a page
MaxFrames == 5

\* the most key indices the script yields
MaxIndices == 17

\* curve paths, all different
CurvePaths == <<Path0, Path1, Path2, Path3, Path4>>

\* the n-th block of a page of curve paths
CurvePathAt(n) == CurvePaths[((n - 1) % Len(CurvePaths)) + 1]

\* pages: 0..MaxFrames two-path blocks of curve paths; pages with short
\* paths among the curve paths; a page with a single-path block and a block
\* without paths
AnimSvgs ==
    {[i \in 1..n |-> SvgBlock(CurvePathAt(i))] : n \in 0..MaxFrames}
    \cup {<<SvgBlock(PathShort9), SvgBlock(Path1), SvgBlock(PathShort3), SvgBlock(PathTen)>>,
          <<SvgBlock(Path0), SvgBlock(PathShort9)>>,
          <<SvgBlock(PathShort3)>>,
          << <<Path2>>, <<>>, SvgBlock(PathTen) >>}

\* key bytes: too short for the guard, or six and more bytes with byte 5
\* over 0..7
AnimKeyBytes ==
    {<<0, 1, 2, 3, 4>>}
    \cup {<<0, 1, 2, 3, 4, b>> : b \in 0..7}
    \cup {<<0, 17, 35, 52, 4, b, 6, 14>> : b \in {2, 5}}

AnimRowIndices == {0, 1, 7}

\* no index, indices inside the key, an index outside it, and one index
\* matched MaxIndices times
AnimKeyIndices == {<<>>, <<3, 4>>, <<2, 9>>, [i \in 1..MaxIndices |-> 7]}

AnimInputs ==
    [svgs : AnimSvgs, rowIndex : AnimRowIndices, keyIndices : AnimKeyIndices,
     keyBytes : AnimKeyBytes]

AnimFrame == UNCHANGED <<genVars, powVars, tokVars, trVars, askVars, stVars,
        restVars>>

AnimInit ==
    /\ animPc = "start"
    /\ animIn \in AnimInputs
    /\ animOut = <<>>

\* g.animationKey = g.getAnimationKey(g.keyBytes)
AnimCompute ==
    /\ animPc = "start"
    /\ animOut' = getAnimationKey(animIn.svgs, animIn.rowIndex, animIn.keyIndices,
                                  animIn.keyBytes)
    /\ animPc' = "done"
    /\ UNCHANGED animIn
    /\ AnimFrame

InitAnim == GenInit /\ PowOff /\ TokOff /\ AnimInit /\ TrOff /\ AskOff /\ StOff /\ RestOff

NextAnim == AnimCompute

SpecAnim == InitAnim /\ [][NextAnim]_vars

\* the frames of the input page
AnimFrames == getFramesD(animIn.svgs)

\* get2dArray was reached with at least one frame to choose from
FrameChosen ==
    /\ animPc = "done"
    /\ Len(animIn.keyBytes) > 5
    /\ Len(animIn.keyBytes) > animIn.rowIndex
    /\ Len(AnimFrames) > 0

\* C19 as stated: the frame read is the one at index keyBytes[5] mod the
\* number of frames.
C19_FrameIndexModFrames ==
    FrameChosen =>
        animOut.dAttr = AnimFrames[(animIn.keyBytes[6] % Len(AnimFrames)) + 1]

\* C19 as the code has it: the frame read is the one at index
\* (keyBytes[5] mod 4) mod the number of frames.
C19_FrameIndexModFourModFrames ==
    FrameChosen =>
        animOut.dAttr = AnimFrames[((animIn.keyBytes[6] % 4) % Len(AnimFrames)) + 1]

\* three frames and byte 5 equal to 4: frame 0 is read, and animated
C19_Witness ==
    /\ FrameChosen
    /\ Len(AnimFrames) = 3
    /\ animIn.keyBytes[6] = 4
    /\ animOut.dAttr = Path0
    /\ animOut.animated
    /\ animOut.key # <<>>

\* the path get2dArray selects on a page with frames, for key bytes that
\* have a byte 5
SelectedPath ==
    AnimFrames[((animIn.keyBytes[6] % 4) % Len(AnimFrames)) + 1]

\* C20: when the selected path has at most 9 characters, getAnimationKey
\* returns "" and animate is not called, whatever the key bytes, the row
\* index and the key indices.
C20_ShortPathEmptyKey ==
    (animPc = "done" /\ Len(animIn.keyBytes) > 5 /\ Len(AnimFrames) > 0
        /\ Len(SelectedPath) <= 9) =>
        /\ animOut.key = <<>>
        /\ ~animOut.animated
        /\ ~animOut.panic

\* a selected path of exactly 9 characters with a row byte of 0
C20_Witness ==
    /\ FrameChosen
    /\ animOut.dAttr = PathShort9
    /\ Len(animOut.dAttr) = 9
    /\ animIn.keyBytes[animIn.rowIndex + 1] % 16 = 0
    /\ animOut.key = <<>>
    /\ ~animOut.animated

\* the product of the factors as a number, in limbs enough to hold
\* MaxIndices + 1 factors below 16 without wrapping
RECURSIVE ExactProduct(_, _)
ExactProduct(keyIndices, keyBytes) ==
    IF keyIndices = <<>> THEN Word(1, 2 * IntLimbs)
    ELSE LET n == Len(keyIndices)
             idx == keyIndices[n]
             rest == ExactProduct(SubSeq(keyIndices, 1, n - 1), keyBytes)
         IN  IF idx < Len(keyBytes) THEN MulSmall(rest, keyBytes[idx + 1] % 16) ELSE rest

\* getAnimationKey got past its length guard and computed a frame time
FrameTimeComputed == animPc = "done" /\ animOut.frameTime # <<>>

\* C21: frameTime is floor(P / 10) * 10 for P the product, from 1, of
\* keyBytes[idx] mod 16 over the key indices inside keyBytes; it is 0 for
\* no key indices and never negative.
C21_FrameTimeIsFlooredProduct ==
    FrameTimeComputed =>
        LET P == ExactProduct(animIn.keyIndices, animIn.keyBytes)
        IN  /\ ~IsNeg(animOut.frameTime)
            /\ animOut.frameTime \o Word(0, IntLimbs) = SubSmall(P, RemFrom(P, 10, 1))
            /\ animIn.keyIndices = <<>> => animOut.frameTime = Word(0, IntLimbs)

\* C26: getAnimationKey never faults, whatever the key bytes, the row index,
\* the key indices and the page; a selected row of fewer than 7 integers
\* is read as if padded with zeros.
C26_AnimationKeyNeverFaults ==
    animPc = "done" => ~animOut.panic

(***************************************************************************)
(* getKeyBytes on its own, over key strings                               *)
(***************************************************************************)

\* the longest key
MaxKeyChars == 4

\* 'A', '/', '=', '*' and a line feed
KeyAlphabet == {65, 47, 61, 42, 10}

KeyStrings == UNION {[1..n -> KeyAlphabet] : n \in 0..MaxKeyChars}

FnFrame ==
    UNCHANGED <<genVars, powVars, tokVars, animVars, trVars, askVars, stVars,
                sseVars, ckVars, atVars, rsVars, cmdVars>>

KeyInit ==
    /\ fnPc = "start"
    /\ fnIn \in KeyStrings
    /\ fnOut = <<>>

\* ensureInitialized: g.keyBytes = g.getKeyBytes(g.key)
KeyDecode ==
    /\ fnPc = "start"
    /\ fnOut' = getKeyBytes(fnIn)
    /\ fnPc' = "done"
    /\ UNCHANGED fnIn
    /\ FnFrame

InitKey ==
    /\ GenInit /\ PowOff /\ TokOff /\ AnimOff /\ TrOff /\ AskOff /\ StOff
    /\ KeyInit /\ SseOff /\ CkOff /\ AtOff /\ RsOff /\ CmdOff

NextKey == KeyDecode

SpecKey == InitKey /\ [][NextKey]_vars

\* the key with '=' added up to a multiple of four characters, and the same
\* without the line breaks a base64 reader skips
KeyPadded == fnIn \o [i \in 1..((4 - (Len(fnIn) % 4)) % 4) |-> 61]

KeyBody == SelectSeq(KeyPadded, LAMBDA ch : ch \notin {10, 13})

\* '=' characters ending the text, at most two
KeyPads ==
    LET n == Len(KeyBody)
    IN  IF n >= 2 /\ KeyBody[n] = 61 /\ KeyBody[n - 1] = 61 THEN 2
        ELSE IF n >= 1 /\ KeyBody[n] = 61 THEN 1 ELSE 0

\* standard base64 text: groups of four characters of the alphabet, the
\* last group ending in at most two '='
KeyIsBase64 ==
    /\ Len(KeyBody) % 4 = 0
    /\ \A i \in 1..(Len(KeyBody) - KeyPads) : KeyBody[i] \in B64Alphabet

\* out is what the text encodes: encoding out gives the text back, but for
\* the bits of the last character that padding leaves unused
KeyEncodes(out) ==
    LET n == Len(KeyBody)
        last == n - KeyPads
        enc == Base64Encode(out)
        unused == IF KeyPads = 2 THEN 16 ELSE IF KeyPads = 1 THEN 4 ELSE 1
    IN  /\ Len(enc) = n
        /\ 3 * Len(enc) = 4 * (Len(out) + KeyPads)
        /\ \A i \in 1..n : i # last => enc[i] = KeyBody[i]
        /\ n > 0 => B64Val(enc[last]) = B64Val(KeyBody[last]) - (B64Val(KeyBody[last]) % unused)

\* C22: getKeyBytes returns the standard-base64 decoding of the key padded
\* with '=' to a multiple of 4 when the padded key decodes, and the raw
\* bytes of the unpadded key otherwise; it returns for every key.
C22_DecodedOrRawKey ==
    fnPc = "done" =>
        IF KeyIsBase64 THEN KeyEncodes(fnOut) ELSE fnOut = fnIn

\* a three-character key with a character outside the alphabet: padded to
\* four, not decodable, returned raw and unpadded
C22_Witness ==
    /\ fnPc = "done"
    /\ Len(fnIn) = 3
    /\ 42 \in {fnIn[i] : i \in 1..Len(fnIn)}
    /\ ~KeyIsBase64
    /\ fnOut = fnIn

(***************************************************************************)
(* cubicBezier.getValue on its own.  Control values are whole hundredths, *)
(* as solve(..., false) rounds them; t is a whole number of 4096ths, as   *)
(* frameTime / totalTime is.  A result is a fraction num / den.  The      *)
(* bisection of the middle branch runs on floating-point estimates that   *)
(* are not reproduced: its result is recorded by its branch only.         *)
(***************************************************************************)

\* const totalTime = 4096
totalTime == 4096

\* 1.0 in hundredths
OneHundredths == 100

\* control values -1, 0, 0.25, 1 and 1.5
ControlValues == {0 - 100, 0, 25, 100, 150}

BezCurves == [1..4 -> ControlValues]

\* t below 0, 0, in between, 1 and above 1
BezTimes == {0 - 10, 0, 10, 2040, 4090, totalTime, 4100}

\* if t <= 0.0
AtStartStrict(t) == t < 0

AtStart(t) == t <= 0

\* if t >= 1.0
AtEnd(t) == t >= totalTime

\* var startGradient float64 and the branches that set it
StartGradient(c) ==
    IF c[1] > 0 THEN [num |-> c[2], den |-> c[1]]
    ELSE IF c[2] = 0 /\ c[3] > 0 THEN [num |-> c[4], den |-> c[3]]
    ELSE [num |-> 0, den |-> 1]

\* var endGradient float64 and the branches that set it
EndGradient(c) ==
    IF c[3] < OneHundredths
    THEN [num |-> c[4] - OneHundredths, den |-> c[3] - OneHundredths]
    ELSE IF c[3] = OneHundredths /\ c[1] < OneHundredths
    THEN [num |-> c[2] - OneHundredths, den |-> c[1] - OneHundredths]
    ELSE [num |-> 0, den |-> 1]

\* cubicBezier.getValue
getValue(c, t) ==
    IF AtStart(t)
    THEN LET gr == StartGradient(c)
         IN  [branch |-> "start", num |-> gr.num * t, den |-> gr.den * totalTime]
    ELSE IF AtEnd(t)
    THEN LET gr == EndGradient(c)
         IN  [branch |-> "end",
              num |-> gr.den * totalTime + gr.num * (t - totalTime),
              den |-> gr.den * totalTime]
    ELSE [branch |-> "bisect"]

BezInit ==
    /\ fnPc = "start"
    /\ fnIn \in [curves : BezCurves, t : BezTimes]
    /\ fnOut = <<>>

\* val := cubic.getValue(targetTime)
BezGetValue ==
    /\ fnPc = "start"
    /\ fnOut' = getValue(fnIn.curves, fnIn.t)
    /\ fnPc' = "done"
    /\ UNCHANGED fnIn
    /\ FnFrame

InitBez ==
    /\ GenInit /\ PowOff /\ TokOff /\ AnimOff /\ TrOff /\ AskOff /\ StOff
    /\ BezInit /\ SseOff /\ CkOff /\ AtOff /\ RsOff /\ CmdOff

NextBez == BezGetValue

SpecBez == InitBez /\ [][NextBez]_vars

\* C23: for every four control values getValue(0) is exactly 0 and
\* getValue(1) is exactly 1, both from the linear branches and without the
\* bisection loop.
C23_EndpointsExact ==
    fnPc = "done" =>
        /\ fnIn.t = 0 =>
              /\ fnOut.branch = "start"
              /\ fnOut.den # 0
              /\ fnOut.num = 0
        /\ fnIn.t = totalTime =>
              /\ fnOut.branch = "end"
              /\ fnOut.den # 0
              /\ fnOut.num = fnOut.den

\* t = 0 with a start gradient of 1.5 / 0.25
C23_Witness ==
    /\ fnPc = "done"
    /\ fnIn.t = 0
    /\ fnIn.curves[1] = 25
    /\ fnIn.curves[2] = 150
    /\ fnOut.branch = "start"
    /\ fnOut.num = 0

(***************************************************************************)
(* sse.Read: the shared Server-Sent Events reader                         *)
(***************************************************************************)

\* the most lines in a stream
MaxSseLines == 3

\* "data: "
DataPrefix == <<100, 97, 116, 97, 58, 32>>

\* "data: a", "data: ", "data:a", "id: 1" and the empty line
SseLineSet ==
    { DataPrefix \o <<97>>, DataPrefix, <<100, 97, 116, 97, 58, 97>>,
      <<105, 100, 58, 32, 49>>, <<>> }

SseStreams == UNION {[1..n -> SseLineSet] : n \in 0..MaxSseLines}

\* strings.HasPrefix
HasPrefix(str, prefix) ==
    Len(str) >= Len(prefix) /\ SubSeq(str, 1, Len(prefix)) = prefix

\* strings.TrimPrefix
TrimPrefix(str, prefix) ==
    IF HasPrefix(str, prefix) THEN SubSeq(str, Len(prefix) + 1, Len(str)) ELSE str

\* if data == "" { continue }
IsEmptyDataNever(data) == FALSE

IsEmptyData(data) == data = <<>>

SseFrame ==
    UNCHANGED <<genVars, powVars, tokVars, animVars, trVars, askVars, stVars,
                fnVars, ckVars, atVars, rsVars, cmdVars>>

SseInit ==
    /\ ssePc = "scan"
    /\ sseLines \in SseStreams
    /\ ssePos = 0
    /\ sseCalls = <<>>
    /\ sseRet = "none"

\* scanner.Scan() delivers the next line and the loop body runs on it
SseScanLine ==
    /\ ssePc = "scan"
    /\ ssePos < Len(sseLines)
    /\ ssePos' = ssePos + 1
    /\ LET line == sseLines[ssePos + 1]
           data == TrimPrefix(line, DataPrefix)
       IN  IF ~HasPrefix(line, DataPrefix) \/ IsEmptyData(data)
           THEN UNCHANGED <<ssePc, sseCalls, sseRet>>
           ELSE \E err \in BOOLEAN :
                   /\ sseCalls' = Append(sseCalls, [data |-> data, err |-> err])
                   /\ IF err
                      THEN ssePc' = "done" /\ sseRet' = "handler"
                      ELSE UNCHANGED <<ssePc, sseRet>>
    /\ UNCHANGED sseLines
    /\ SseFrame

\* scanner.Scan() returns false on a read error or a line over the 1 MiB
\* buffer: Read returns "reading SSE stream: ..."
SseScanFail ==
    /\ ssePc = "scan"
    /\ ssePc' = "done"
    /\ sseRet' = "scan"
    /\ UNCHANGED <<sseLines, ssePos, sseCalls>>
    /\ SseFrame

\* scanner.Scan() returns false at the end of the stream: Read returns nil
SseEof ==
    /\ ssePc = "scan"
    /\ ssePos = Len(sseLines)
    /\ ssePc' = "done"
    /\ sseRet' = "nil"
    /\ UNCHANGED <<sseLines, ssePos, sseCalls>>
    /\ SseFrame

InitSse ==
    /\ GenInit /\ PowOff /\ TokOff /\ AnimOff /\ TrOff /\ AskOff /\ StOff
    /\ FnOff /\ SseInit /\ CkOff /\ AtOff /\ RsOff /\ CmdOff

NextSse == SseScanLine \/ SseScanFail \/ SseEof

SpecSse == InitSse /\ [][NextSse]_vars

\* a line that starts with "data: " and has something after it
IsDataLine(line) ==
    /\ Len(line) > 6
    /\ \A i \in 1..6 : line[i] = DataPrefix[i]

\* the payloads of the data lines among the first n lines, in stream order
RECURSIVE PayloadsUpTo(_)
PayloadsUpTo(n) ==
    IF n = 0 THEN <<>>
    ELSE LET line == sseLines[n]
         IN  IF IsDataLine(line)
             THEN Append(PayloadsUpTo(n - 1), SubSeq(line, 7, Len(line)))
             ELSE PayloadsUpTo(n - 1)

\* C24: the handler is called once, in stream order, for each delivered line
\* that starts with "data: " and has a non-empty payload, and for no other
\* line; Read stops at the first handler error and returns it; it returns
\* nil at the end of the stream when no handler call and no scan failed.
C24_HandlerPerDataLine ==
    ssePc \in {"scan", "done"} =>
        /\ [k \in 1..Len(sseCalls) |-> sseCalls[k].data] = PayloadsUpTo(ssePos)
        /\ \A k \in 1..(Len(sseCalls) - 1) : ~sseCalls[k].err
        /\ (Len(sseCalls) > 0 /\ sseCalls[Len(sseCalls)].err) =>
              (ssePc = "done" /\ sseRet = "handler")
        /\ sseRet = "handler" => (Len(sseCalls) > 0 /\ sseCalls[Len(sseCalls)].err)
        /\ sseRet = "nil" =>
              (ssePos = Len(sseLines) /\ \A k \in 1..Len(sseCalls) : ~sseCalls[k].err)
        /\ (ssePc = "done" /\ ssePos = Len(sseLines) /\ sseRet # "scan"
                /\ \A k \in 1..Len(sseCalls) : ~sseCalls[k].err) => sseRet = "nil"

\* the handler failed on the second line of three, after an empty payload
\* was passed over: one call, the third line never read
C24_Witness ==
    /\ ssePc = "done"
    /\ sseRet = "handler"
    /\ Len(sseLines) = 3
    /\ sseLines[1] = DataPrefix
    /\ ssePos = 2
    /\ Len(sseCalls) = 1

(***************************************************************************)
(* cookies.Extract: Safari first, then Chrome.  A cookie value is a       *)
(* number, 0 for the empty string; the i-th cookie a store yields has the *)
(* value 10 + i in Safari and 20 + i in Chrome, or 0.                     *)
(***************************************************************************)

\* the most cookies a browser's store yields for the domain
MaxCookies == 2

CookieNames == {"a", "b"}

\* spec.Names: none, one or both
NameLists == {<<>>, <<"a">>, <<"a", "b">>}

\* what a store yields at place i: cookie a or b with a value, or cookie a
\* with an empty value
CookiesAt(base, i) ==
    {[name |-> "a", value |-> base + i], [name |-> "a", value |-> 0],
     [name |-> "b", value |-> base + i]}

CookieStores(base) ==
    UNION {{st \in [1..n -> UNION {CookiesAt(base, i) : i \in 1..n}] :
                \A i \in 1..n : st[i] \in CookiesAt(base, i)} : n \in 0..MaxCookies}

\* nameSet[n] for n in spec.Names
NameSet(names) == {names[i] : i \in 1..Len(names)}

\* Result.HasAll
HasAll(cookies, names) == \A i \in 1..Len(names) : cookies[names[i]] # 0

\* if existing := result.Cookies[cookie.Name]; existing != "" { continue }
KeepsNever(cookies, name) == FALSE

Keeps(cookies, name) == cookies[name] # 0

\* the loop body of extractSafari and extractChrome on one cookie: whether
\* it is stored
Stored(res, names, cookie) ==
    /\ cookie.value # 0
    /\ (Len(names) > 0 => cookie.name \in NameSet(names))
    /\ ~Keeps(res.cookies, cookie.name)

CkFrame ==
    UNCHANGED <<genVars, powVars, tokVars, animVars, trVars, askVars, stVars,
                fnVars, sseVars, atVars, rsVars, cmdVars>>

CkInit ==
    /\ ckPc = "start"
    /\ ckIn \in [names : NameLists, safari : CookieStores(10), chrome : CookieStores(20)]
    /\ ckPos = 0
    /\ ckResult = [cookies |-> [n \in CookieNames |-> 0], browser |-> ""]
    /\ ckLog = [stores |-> <<>>, opened |-> {}, done |-> FALSE, safari |-> 0, chrome |-> 0]

\* extractSafari begins: safariCookiePaths fails, or the store is opened
CkSafariOpen ==
    /\ ckPc = "start"
    /\ \/ /\ ckPc' = "check"
          /\ UNCHANGED ckLog
       \/ /\ ckPc' = "safari"
          /\ ckLog' = [ckLog EXCEPT !.opened = @ \cup {"safari"}]
    /\ UNCHANGED <<ckIn, ckPos, ckResult>>
    /\ CkFrame

\* one pass of a traversal loop over the store of browser b: the context is
\* found done and the function returns ctx.Err(), or the cookie is handled
CkCookie(b, next) ==
    /\ ckPc = b
    /\ ckPos < Len(ckIn[b])
    /\ \E ctxDone \in (IF ckLog.done THEN {TRUE} ELSE BOOLEAN) :
          IF ctxDone
          THEN /\ ckPc' = next
               /\ ckLog' = [ckLog EXCEPT !.done = TRUE]
               /\ UNCHANGED <<ckPos, ckResult>>
          ELSE LET cookie == ckIn[b][ckPos + 1]
               IN  /\ ckPos' = ckPos + 1
                   /\ UNCHANGED ckPc
                   /\ IF Stored(ckResult, ckIn.names, cookie)
                      THEN /\ ckResult' =
                                [cookies |-> [ckResult.cookies EXCEPT ![cookie.name] = cookie.value],
                                 browser |-> IF ckResult.browser = "" THEN b
                                             ELSE ckResult.browser]
                           /\ ckLog' = [ckLog EXCEPT
                                           ![b] = ckPos + 1,
                                           !.stores = Append(@, [browser |-> b,
                                                                 name |-> cookie.name])]
                      ELSE /\ ckLog' = [ckLog EXCEPT ![b] = ckPos + 1]
                           /\ UNCHANGED ckResult
    /\ UNCHANGED ckIn
    /\ CkFrame

\* the traversal of browser b's store is over
CkStoreEnd(b, next) ==
    /\ ckPc = b
    /\ ckPos = Len(ckIn[b])
    /\ ckPc' = next
    /\ UNCHANGED <<ckIn, ckPos, ckResult, ckLog>>
    /\ CkFrame

\* if result.HasAll(spec.Names) { return }; else extractChrome begins: no
\* cookie file, or the store is opened
CkHasAll ==
    /\ ckPc = "check"
    /\ IF HasAll(ckResult.cookies, ckIn.names)
       THEN ckPc' = "done" /\ UNCHANGED <<ckPos, ckLog>>
       ELSE \/ /\ ckPc' = "done"
               /\ UNCHANGED <<ckPos, ckLog>>
            \/ /\ ckPc' = "chrome"
               /\ ckPos' = 0
               /\ ckLog' = [ckLog EXCEPT !.opened = @ \cup {"chrome"}]
    /\ UNCHANGED <<ckIn, ckResult>>
    /\ CkFrame

InitCk ==
    /\ GenInit /\ PowOff /\ TokOff /\ AnimOff /\ TrOff /\ AskOff /\ StOff
    /\ FnOff /\ SseOff /\ CkInit /\ AtOff /\ RsOff /\ CmdOff

NextCk ==
    \/ CkSafariOpen
    \/ CkCookie("safari", "check")
    \/ CkStoreEnd("safari", "check")
    \/ CkHasAll
    \/ CkCookie("chrome", "done")
    \/ CkStoreEnd("chrome", "done")

SpecCk == InitCk /\ [][NextCk]_vars

\* the first non-empty value for name n among the cookies browser b's
\* traversal handed to Extract, 0 when there is none
FirstFound(b, n) ==
    LET at == {i \in 1..ckLog[b] : ckIn[b][i].name = n /\ ckIn[b][i].value # 0}
    IN  IF at = {} THEN 0
        ELSE ckIn[b][CHOOSE i \in at : \A j \in at : i <= j].value

AtTickMinutes == 11

MaxAtClock == 66

\* p.tokenExpiry = time.Now().Add(55 * time.Minute)
tokenLifetime == 55

\* hosts := []string{p.baseURL, "https://chatgpt.com", "https://chat.openai.com"}
Hosts == <<"baseURL", "https://chatgpt.com", "https://chat.openai.com">>

\* what a try at one host comes to: the request cannot be built, the
\* transport fails, a status other than 200, a body that does not decode, an
\* empty accessToken, or a token; the last three after a 200 response that
\* may carry a rotated session cookie
SessionResponses ==
    {[kind |-> k, rotated |-> FALSE] : k \in {"newRequest", "do", "status"}}
    \cup {[kind |-> k, rotated |-> r] : k \in {"decode", "empty", "ok"}, r \in BOOLEAN}

\* p.accessToken != "" && time.Now().Before(p.tokenExpiry)
TokenFreshInclusive(prov, now) == prov.accessToken # 0 /\ now <= prov.tokenExpiry

TokenFresh(prov, now) == prov.accessToken # 0 /\ now < prov.tokenExpiry

AtFrame ==
    UNCHANGED <<genVars, powVars, tokVars, animVars, trVars, askVars, stVars,
                fnVars, sseVars, ckVars, rsVars, cmdVars>>

AtInit ==
    /\ atPc = "idle"
    /\ atProv = [accessToken |-> 0, tokenExpiry |-> 0, sessionToken |-> 0]
    /\ atClock = 0
    /\ atTried = <<>>
    /\ atRet = [token |-> 0, err |-> FALSE, at |-> 0, calls |-> 0]
    /\ atIssued = <<>>

\* getAccessToken is called: the cached token is returned, or the loop
\* over the hosts begins
AtCall ==
    /\ atPc = "idle"
    /\ IF TokenFresh(atProv, atClock)
       THEN /\ atRet' = [token |-> atProv.accessToken, err |-> FALSE, at |-> atClock,
                         calls |-> 1 - atRet.calls]
            /\ UNCHANGED <<atPc, atTried>>
       ELSE /\ atPc' = "try"
            /\ atTried' = <<>>
            /\ UNCHANGED atRet
    /\ UNCHANGED <<atProv, atClock, atIssued>>
    /\ AtFrame

\* one pass of the loop: the next host is asked and answers
AtHostReturn ==
    /\ atPc = "try"
    /\ Len(atTried) < Len(Hosts)
    /\ atTried' = Append(atTried, Hosts[Len(atTried) + 1])
    /\ \E resp \in SessionResponses :
          LET session == IF resp.rotated THEN 1 ELSE atProv.sessionToken
          IN  IF resp.kind = "ok"
              THEN /\ atIssued' = Append(atIssued, atClock)
                   /\ atProv' = [accessToken |-> Len(atIssued) + 1,
                                 tokenExpiry |-> atClock + tokenLifetime,
                                 sessionToken |-> session]
                   /\ atRet' = [token |-> Len(atIssued) + 1, err |-> FALSE,
                                at |-> atClock, calls |-> 1 - atRet.calls]
                   /\ atPc' = "idle"
              ELSE /\ atProv' = [atProv EXCEPT !.sessionToken = session]
                   /\ UNCHANGED atIssued
                   /\ IF Len(atTried') = Len(Hosts)
                      THEN \* "all auth attempts failed"
                           /\ atRet' = [token |-> 0, err |-> TRUE, at |-> atClock,
                                        calls |-> 1 - atRet.calls]
                           /\ atPc' = "idle"
                      ELSE UNCHANGED <<atPc, atRet>>
    /\ UNCHANGED atClock
    /\ AtFrame

\* time passes, also while a request is out
AtTick ==
    /\ atClock + AtTickMinutes <= MaxAtClock
    /\ atClock' = atClock + AtTickMinutes
    /\ UNCHANGED <<atPc, atProv, atTried, atRet, atIssued>>
    /\ AtFrame

InitAt ==
    /\ GenInit /\ PowOff /\ TokOff /\ AnimOff /\ TrOff /\ AskOff /\ StOff
    /\ FnOff /\ SseOff /\ CkOff /\ AtInit /\ RsOff /\ CmdOff

NextAt == AtCall \/ AtHostReturn \/ AtTick

SpecAt == InitAt /\ [][NextAt]_vars

\* C28: a returned access token came from a successful session response
\* less than 55 minutes before the return; a refresh starts only without a
\* fresh token and asks baseURL, chatgpt.com, chat.openai.com in this order;
\* when all three fail an error is returned and accessToken and tokenExpiry
\* are as they were.
C28_TokenYoungerThan55 ==
    /\ [](atPc \in {"idle", "try"} =>
            /\ (~atRet.err /\ atRet.token # 0) =>
                  /\ atRet.token \in 1..Len(atIssued)
                  /\ atIssued[atRet.token] <= atRet.at
                  /\ atRet.at - atIssued[atRet.token] < 55
            /\ atRet.err => atRet.token = 0
            /\ atTried = SubSeq(Hosts, 1, Len(atTried))
            /\ atPc = "try" => (atProv.accessToken = 0 \/ atProv.tokenExpiry <= atClock))
    /\ [][(atPc = "try" /\ atPc' = "idle" /\ atRet'.err) =>
            /\ atTried' = Hosts
            /\ atProv'.accessToken = atProv.accessToken
            /\ atProv'.tokenExpiry = atProv.tokenExpiry]_vars
    /\ [][(atPc = "try" /\ atPc' = "try") =>
            /\ atProv'.accessToken = atProv.accessToken
            /\ atProv'.tokenExpiry = atProv.tokenExpiry]_vars

\* the first token ran out at minute 55 and the third host supplied the
\* second one, which a later call returned from the cache
C28_Witness ==
    /\ atPc = "idle"
    /\ ~atRet.err
    /\ atRet.token = 2
    /\ atIssued[1] = 0
    /\ atIssued[2] = 55
    /\ atTried = Hosts
    /\ atRet.at = 66

(***************************************************************************)
(* Provider.readStream (chatgpt): cumulative texts turned into deltas.    *)
(* A line is given by what the loop makes of it: no "data: " prefix, the  *)
(* "[DONE]" payload, a payload json.Unmarshal rejects, or a decoded       *)
(* conversationResponse.                                                  *)
(***************************************************************************)

MaxStreamLines == 3

StreamLine(kind, message, role, parts, conversationID, id) ==
    [kind |-> kind, message |-> message, role |-> role, parts |-> parts,
     conversationID |-> conversationID, id |-> id]

StreamLineSet ==
    { StreamLine("other", FALSE, "", <<>>, "", ""),
      StreamLine("[DONE]", FALSE, "", <<>>, "", ""),
      StreamLine("invalid", FALSE, "", <<>>, "", ""),
      StreamLine("frame", FALSE, "", <<>>, "c1", ""),
      StreamLine("frame", TRUE, "user", << <<97, 98>> >>, "c1", "m0"),
      StreamLine("frame", TRUE, "assistant", <<>>, "c1", ""),
      StreamLine("frame", TRUE, "assistant", << <<97>> >>, "c1", "m1"),
      StreamLine("frame", TRUE, "assistant", << <<97, 98>> >>, "", "m1"),
      StreamLine("frame", TRUE, "assistant", << <<98>> >>, "", ""),
      StreamLine("frame", TRUE, "assistant", << <<98, 97>> >>, "", "m2"),
      StreamLine("frame", TRUE, "assistant", << <<98>>, <<97, 98>> >>, "", "") }

Streams == UNION {[1..n -> StreamLineSet] : n \in 0..MaxStreamLines}

\* which callbacks the caller supplied
StreamOpts ==
    { [OnText |-> TRUE, OnDone |-> TRUE, OnConversation |-> TRUE],
      [OnText |-> FALSE, OnDone |-> FALSE, OnConversation |-> FALSE] }

\* if len(current) > len(fullText)
LongerOrEqual(current, fullText) == Len(current) >= Len(fullText)

Longer(current, fullText) == Len(current) > Len(fullText)

\* delta := current[len(fullText):]
Delta(current, fullText) == SubSeq(current, Len(fullText) + 1, Len(current))

\* frame.Message == nil || frame.Message.Author.Role != "assistant"
NotAssistant(frame) == ~frame.message \/ frame.role # "assistant"

RsFrame ==
    UNCHANGED <<genVars, powVars, tokVars, animVars, trVars, askVars, stVars,
                fnVars, sseVars, ckVars, atVars, cmdVars>>

\* rsFull holds the callbacks given and the function's three locals
RsInit ==
    /\ rsPc = "scan"
    /\ rsLines \in Streams
    /\ rsPos = 0
    /\ \E opts \in StreamOpts :
          rsFull = [opts |-> opts, fullText |-> <<>>,
                    lastConversationID |-> "", lastMessageID |-> ""]
    /\ rsCalls = <<>>

\* one pass of the loop over scanner.Scan()
RsScanLine ==
    /\ rsPc = "scan"
    /\ rsPos < Len(rsLines)
    /\ rsPos' = rsPos + 1
    /\ LET frame == rsLines[rsPos + 1]
           withIDs == [rsFull EXCEPT
                         !.lastConversationID =
                             IF frame.conversationID # "" THEN frame.conversationID ELSE @,
                         !.lastMessageID = IF frame.id # "" THEN frame.id ELSE @]
           current == frame.parts[Len(frame.parts)]
       IN  CASE frame.kind = "[DONE]" ->
                  /\ rsCalls' = IF rsFull.opts.OnDone
                                THEN Append(rsCalls, [fn |-> "OnDone", arg |-> <<>>])
                                ELSE rsCalls
                  /\ rsPc' = "finish"
                  /\ UNCHANGED rsFull
             [] frame.kind \in {"other", "invalid"} \/ NotAssistant(frame) ->
                  UNCHANGED <<rsPc, rsFull, rsCalls>>
             [] OTHER ->
                  IF Len(frame.parts) > 0 /\ Longer(current, rsFull.fullText)
                  THEN /\ rsFull' = [withIDs EXCEPT !.fullText = current]
                       /\ rsCalls' =
                             IF rsFull.opts.OnText
                             THEN Append(rsCalls, [fn |-> "OnText",
                                                   arg |-> Delta(current, rsFull.fullText)])
                             ELSE rsCalls
                       /\ UNCHANGED rsPc
                  ELSE /\ rsFull' = withIDs
                       /\ UNCHANGED <<rsPc, rsCalls>>
    /\ UNCHANGED rsLines
    /\ RsFrame

\* scanner.Scan() returns false at the end of the input
RsEof ==
    /\ rsPc = "scan"
    /\ rsPos = Len(rsLines)
    /\ rsPc' = "finish"
    /\ UNCHANGED <<rsLines, rsPos, rsFull, rsCalls>>
    /\ RsFrame

\* scanner.Scan() returns false on a read error: "reading stream: ..."
RsScanFail ==
    /\ rsPc = "scan"
    /\ rsPc' = "failed"
    /\ UNCHANGED <<rsLines, rsPos, rsFull, rsCalls>>
    /\ RsFrame

\* after the loop: the conversation is reported and nil returned
RsFinish ==
    /\ rsPc = "finish"
    /\ rsPc' = "returned"
    /\ rsCalls' =
          IF /\ rsFull.opts.OnConversation
             /\ (rsFull.lastConversationID # "" \/ rsFull.lastMessageID # "")
          THEN Append(rsCalls, [fn |-> "OnConversation",
                                arg |-> <<rsFull.lastConversationID, rsFull.lastMessageID>>])
          ELSE rsCalls
    /\ UNCHANGED <<rsLines, rsPos, rsFull>>
    /\ RsFrame

InitRs ==
    /\ GenInit /\ PowOff /\ TokOff /\ AnimOff /\ TrOff /\ AskOff /\ StOff
    /\ FnOff /\ SseOff /\ CkOff /\ AtOff /\ RsInit /\ CmdOff

NextRs == RsScanLine \/ RsEof \/ RsScanFail \/ RsFinish

SpecRs == InitRs /\ [][NextRs]_vars

\* the positions, among the first n lines, of the assistant frames that
\* carry a text
TextFrames(n) ==
    {i \in 1..n : /\ rsLines[i].kind = "frame"
                  /\ rsLines[i].message
                  /\ rsLines[i].role = "assistant"
                  /\ Len(rsLines[i].parts) > 0}

CumulativeText(i) == rsLines[i].parts[Len(rsLines[i].parts)]

\* each cumulative text extends the one before it
Extending(n) ==
    \A i, j \in TextFrames(n) : i < j => HasPrefix(CumulativeText(j), CumulativeText(i))

\* the frames longer than every text before them
Advancing(n) ==
    {i \in TextFrames(n) :
        /\ Len(CumulativeText(i)) > 0
        /\ \A j \in TextFrames(n) : j < i => Len(CumulativeText(j)) < Len(CumulativeText(i))}

RECURSIVE JoinArgs(_)
JoinArgs(log) ==
    IF log = <<>> THEN <<>>
    ELSE JoinArgs(SubSeq(log, 1, Len(log) - 1)) \o log[Len(log)].arg

CallsOf(fn) == SelectSeq(rsCalls, LAMBDA call : call.fn = fn)

\* C29: over assistant frames whose texts each extend the one before, the
\* deltas handed to OnText join to the last cumulative text; a frame whose
\* text is not longer than what was emitted makes no OnText call; no line
\* after "[DONE]" is processed, and OnDone has then been called exactly once.
C29_DeltasJoinToLastText ==
    (rsPc # "off") =>
       LET texts == TextFrames(rsPos)
           last == CHOOSE i \in texts : \A j \in texts : j <= i
       IN  /\ (rsFull.opts.OnText /\ Extending(rsPos)) =>
                 JoinArgs(CallsOf("OnText")) =
                    IF texts = {} THEN <<>> ELSE CumulativeText(last)
           /\ rsFull.opts.OnText =>
                 Len(CallsOf("OnText")) = Cardinality(Advancing(rsPos))
           /\ \A i \in 1..(rsPos - 1) : rsLines[i].kind # "[DONE]"
           /\ (rsPos > 0 /\ rsLines[rsPos].kind = "[DONE]") =>
                 /\ rsPc \in {"finish", "returned"}
                 /\ rsFull.opts.OnDone => Len(CallsOf("OnDone")) = 1

\* "a", then "ab", then the same "ab" again would make no call; here the
\* stream a, ab, [DONE] has been read to its end with all callbacks given
C29_Witness ==
    /\ rsPc = "returned"
    /\ Len(rsLines) = 3
    /\ rsPos = 3
    /\ rsLines[3].kind = "[DONE]"
    /\ TextFrames(3) = {1, 2}
    /\ CumulativeText(1) = <<97>>
    /\ CumulativeText(2) = <<97, 98>>
    /\ Len(CallsOf("OnText")) = 2
    /\ Len(CallsOf("OnDone")) = 1

(***************************************************************************)
(* The ask commands (runGrokAsk, runChatGPTAsk, runPerplexityAsk) and     *)
(* the conversation state: standard and incognito mode                    *)
(***************************************************************************)

AskProviders == {"grok", "chatgpt", "perplexity"}

\* GetConversation returned nil
NoConversation == [present |-> FALSE, ConversationID |-> "", ParentMessageID |-> ""]

SavedConversation ==
    [present |-> TRUE, ConversationID |-> "saved", ParentMessageID |-> "parent"]

\* state.json before the command runs: missing, or with an entry for
\* every provider, or with entries that carry no id
CmdFiles ==
    { [p \in AskProviders |-> NoConversation],
      [p \in AskProviders |-> SavedConversation],
      [p \in AskProviders |-> [SavedConversation EXCEPT !.ConversationID = ""]] }

\* the command's arguments: the provider, incognito or not, the
\* --conversation and --resume flags, and the state file it finds
CmdInputs ==
    [provider : AskProviders, temporary : BOOLEAN, conversation : {"", "given"},
     resume : BOOLEAN, file : CmdFiles]

\* State.GetConversation
GetConversation(state, provider) == state[provider]

\* if !temporary
StandardAlways(temporary) == TRUE

Standard(temporary) == ~temporary

CmdFrame ==
    UNCHANGED <<genVars, powVars, tokVars, animVars, trVars, askVars, stVars,
                fnVars, sseVars, ckVars, atVars, rsVars>>

CmdInit ==
    /\ cmdPc = "start"
    /\ cmdIn \in CmdInputs
    /\ cmdOpts = [Temporary |-> FALSE, ConversationID |-> "", ParentMessageID |-> "",
                  OnConversation |-> FALSE]
    /\ cmdFile = cmdIn.file
    /\ cmdLog = <<>>

\* the command up to p.Ask: opts is built, the conversation to continue is
\* chosen and the callback installed
CmdBuildOpts ==
    /\ cmdPc = "start"
    /\ LET lookup == /\ Standard(cmdIn.temporary)
                     /\ cmdIn.conversation = ""
                     /\ cmdIn.resume
           conv == GetConversation(cmdFile, cmdIn.provider)
       IN  /\ cmdLog' = IF lookup THEN Append(cmdLog, "LoadState") ELSE cmdLog
           /\ cmdOpts' =
                 [Temporary |-> cmdIn.temporary,
                  ConversationID |->
                     IF Standard(cmdIn.temporary) /\ cmdIn.conversation # ""
                     THEN cmdIn.conversation
                     ELSE IF lookup /\ conv.present THEN conv.ConversationID ELSE "",
                  ParentMessageID |->
                     IF lookup /\ conv.present /\ cmdIn.provider = "chatgpt"
                     THEN conv.ParentMessageID ELSE "",
                  OnConversation |-> Standard(cmdIn.temporary)]
    /\ cmdPc' = "ask"
    /\ UNCHANGED <<cmdIn, cmdFile>>
    /\ CmdFrame

\* inside p.Ask the provider comes to report the conversation: it calls
\* opts.OnConversation when that is set, and the callback loads the state,
\* sets the provider's entry and saves (the error of SaveState is dropped)
CmdConversation ==
    /\ cmdPc = "ask"
    /\ cmdPc' = "reported"
    /\ IF cmdOpts.OnConversation
       THEN \E convID \in {"", "new"}, saved \in BOOLEAN :
               /\ cmdLog' = cmdLog \o <<"LoadState", "SaveState">>
               /\ cmdFile' =
                     IF saved
                     THEN SetConversation(cmdFile, cmdIn.provider,
                             [present |-> TRUE, ConversationID |-> convID,
                              ParentMessageID |->
                                 IF cmdIn.provider = "chatgpt" THEN "message" ELSE ""])
                     ELSE cmdFile
       ELSE UNCHANGED <<cmdFile, cmdLog>>
    /\ UNCHANGED <<cmdIn, cmdOpts>>
    /\ CmdFrame

\* p.Ask returns, with an error or without, and so does the command
CmdReturn ==
    /\ cmdPc \in {"ask", "reported"}
    /\ cmdPc' = "returned"
    /\ UNCHANGED <<cmdIn, cmdOpts, cmdFile, cmdLog>>
    /\ CmdFrame

InitCmd ==
    /\ GenInit /\ PowOff /\ TokOff /\ AnimOff /\ TrOff /\ AskOff /\ StOff
    /\ FnOff /\ SseOff /\ CkOff /\ AtOff /\ RsOff /\ CmdInit

NextCmd == CmdBuildOpts \/ CmdConversation \/ CmdReturn

SpecCmd == InitCmd /\ [][NextCmd]_vars

\* C30: an incognito run calls neither LoadState nor SaveState, leaves
\* OnConversation unset and ConversationID empty and the state file as it
\* was, whatever the resume and conversation flags; a standard run with an
\* explicit conversation id asks with that id, resume or not.
C30_IncognitoTouchesNoState ==
    (cmdPc \notin {"off", "start"}) =>
        /\ cmdIn.temporary =>
              /\ cmdLog = <<>>
              /\ ~cmdOpts.OnConversation
              /\ cmdOpts.ConversationID = ""
              /\ cmdFile = cmdIn.file
        /\ (~cmdIn.temporary /\ cmdIn.conversation # "") =>
              cmdOpts.ConversationID = cmdIn.conversation

\* an incognito run with both flags given and a saved conversation on disk,
\* at the point where the provider has reported the new conversation
C30_Witness ==
    /\ cmdPc = "reported"
    /\ cmdIn.temporary
    /\ cmdIn.resume
    /\ cmdIn.conversation = "given"
    /\ GetConversation(cmdIn.file, cmdIn.provider) = SavedConversation

====
